---- MODULE Spec2Model ----
(***************************************************************************)
(* License / subscription state resolution of the billing server           *)
(* (handlers/billing.go) over its two storage backends                     *)
(* (storage/memory.go, storage/postgres.go).                               *)
(*                                                                         *)
(* Time is counted in whole hours since 2023-01-01T00:00 UTC.  A nil       *)
(* *time.Time is NoTime, the zero time.Time is ZeroTime.  Strings that the *)
(* code slices or concatenates (tenant ids, camera ids, map keys) are      *)
(* sequences of one-character strings.                                     *)
(***************************************************************************)
EXTENDS Integers, Sequences, FiniteSets, TLC

\* models/tenant.go: trial license configuration constants
TrialMaxCameras == 2
TrialDurationDays == 90

\* handlers/billing.go:1144, default capacity of a paid subscription
DefaultPaidCameras == 10

HoursPerDay == 24
NoTime == -1
ZeroTime == -2

\* Bounds of the model
MaxTicks == 1
MaxSubRows == 2
NumCameras == 3
MaxPackList == 2
MaxEvents == 3
MaxKeyLen == 5

-----------------------------------------------------------------------------
(* Calendar arithmetic of time.Time.AddDate (proleptic Gregorian, UTC).    *)

IsLeap(y) == (y % 4 = 0 /\ y % 100 # 0) \/ y % 400 = 0

DaysInYear(y) == IF IsLeap(y) THEN 366 ELSE 365

DaysInMonth(y, m) ==
    IF m = 2 THEN (IF IsLeap(y) THEN 29 ELSE 28)
    ELSE IF m \in {4, 6, 9, 11} THEN 30 ELSE 31

\* The years the model spans; hour 0 is 2023-01-01T00:00
Years == 2023..2032

RECURSIVE DaysBeforeYearRec(_)
DaysBeforeYearRec(y) ==
    IF y <= 2023 THEN 0 ELSE DaysBeforeYearRec(y - 1) + DaysInYear(y - 1)

RECURSIVE DaysBeforeMonthRec(_, _)
DaysBeforeMonthRec(y, m) ==
    IF m <= 1 THEN 0 ELSE DaysBeforeMonthRec(y, m - 1) + DaysInMonth(y, m - 1)

\* Tables of the days before a year and before a month of a year
YearStart == [y \in Years |-> DaysBeforeYearRec(y)]

MonthStart == [y \in Years |-> [m \in 1..12 |-> DaysBeforeMonthRec(y, m)]]

DaysBeforeYear(y) == YearStart[y]

DaysBeforeMonth(y, m) == MonthStart[y][m]

\* time.Date normalises a month outside 1..12 into the year and lets a day
\* past the end of the month run on into the following months.
DayNumber(y, m, d) ==
    LET yy == y + ((m - 1) \div 12)
        mm == ((m - 1) % 12) + 1
    IN  DaysBeforeYear(yy) + DaysBeforeMonth(yy, mm) + d - 1

CivilYear(n) ==
    CHOOSE y \in 2023..2031 :
        YearStart[y] <= n /\ n < YearStart[y + 1]

CivilMonth(n) ==
    LET y == CivilYear(n)
        r == n - DaysBeforeYear(y)
    IN  CHOOSE m \in 1..12 :
            DaysBeforeMonth(y, m) <= r /\ r < DaysBeforeMonth(y, m) + DaysInMonth(y, m)

CivilDay(n) ==
    LET y == CivilYear(n)
    IN  n - DaysBeforeYear(y) - DaysBeforeMonth(y, CivilMonth(n)) + 1

AddDate(t, years, months, days) ==
    LET n == t \div HoursPerDay
        h == t % HoursPerDay
    IN  DayNumber(CivilYear(n) + years, CivilMonth(n) + months, CivilDay(n) + days)
            * HoursPerDay + h

\* int(d.Hours() / 24): Go's conversion to int truncates toward zero
TruncDays(hours) ==
    IF hours >= 0 THEN hours \div HoursPerDay ELSE -((-hours) \div HoursPerDay)

\* t.After(u)
After(t, u) == t > u

-----------------------------------------------------------------------------
(* Inputs of the requests                                                  *)

\* Two tenant ids, the first a proper prefix of the second
Tenants == { <<"a">>, <<"a", "b">> }

CameraIds == { <<ToString(i)>> : i \in 1..NumCameras }

NoCamera == <<>>

\* Requests (tenant, camera): the longer tenant id registers one camera only
CameraRequests ==
    { <<t, c>> \in Tenants \X (CameraIds \cup {NoCamera}) :
        t = <<"a">> \/ c \in {NoCamera, <<"1">>} }

Plans == {"trial", "base"}

PackNames == {"Advanced Analytics", "Active Transport"}

\* The clock advances by the length of a 90-day trial, by an hour more than
\* that, or by more than a year
TickSteps ==
    { TrialDurationDays * HoursPerDay, TrialDurationDays * HoursPerDay + 1,
      367 * HoursPerDay }

\* The first request arrives on 2023-11-30 at 10:00: three months later is
\* 2024-02-30, which the calendar normalises to 2024-03-01
StartTimes == { DayNumber(2023, 11, 30) * HoursPerDay + 10 }

Backends == {"memory", "postgres"}

-----------------------------------------------------------------------------
VARIABLES
    backend,        \* main.go: which Storage implementation is in use
    now,            \* time.Now()
    ticks,          \* number of clock advances so far
    tenants,        \* ids of the stored tenants
    subscriptions,  \* stored subscriptions, in insertion order
    growthPacks,    \* tenant id -> sequence of growth pack assignments
    cameras,        \* stored camera licenses, one per camera key
    entitlements,   \* stored feature entitlements, one per entitlement key
    usageEvents,    \* stored usage events, in insertion order
    resp,           \* the response of the last request; for RevokeLicense
                    \* packs is the list of enabled packs the handler read
    expiredSeen,    \* history: subscriptions ValidateLicense has reported expired
    requests,       \* the requests in flight, one per goroutine
    trialEnds       \* history: tenant id -> the earliest trial end stored for it

vars ==
    <<backend, now, ticks, tenants, subscriptions, growthPacks, cameras,
      entitlements, usageEvents, resp, expiredSeen, requests, trialEnds>>

store ==
    <<tenants, subscriptions, growthPacks, cameras, entitlements, usageEvents>>

NoSub ==
    [ID |-> 0, TenantID |-> <<>>, Plan |-> "", Status |-> "",
     CamerasLicensed |-> 0, TrialStartDate |-> NoTime, TrialEndDate |-> NoTime,
     SubscriptionStartDate |-> NoTime, SubscriptionEndDate |-> NoTime,
     CreatedAt |-> ZeroTime]

\* The zero PricingBreakdown
NoPricing ==
    [base_cost |-> 0, camera_count |-> 0, growth_packs |-> <<>>,
     growth_pack_cost |-> 0, total_monthly |-> 0, currency |-> ""]

NoResp ==
    [op |-> "", code |-> 0, fault |-> "none", tenant |-> <<>>, camera |-> <<>>,
     provisioned |-> FALSE, is_valid |-> FALSE, license_mode |-> "",
     valid_until |-> NoTime, cameras_allowed |-> 0, packs |-> <<>>,
     plan |-> "", status |-> "", has_days |-> FALSE, days_remaining |-> 0,
     trial_expired |-> FALSE, current_cameras |-> 0, cameras_over_limit |-> 0,
     action_required |-> FALSE, action_message |-> "", can_revoke |-> FALSE,
     active_cameras |-> 0, feature |-> <<>>, is_enabled |-> FALSE,
     quota_remaining |-> 0, args |-> <<>>, pricing |-> NoPricing,
     accepted_count |-> 0, rejected_count |-> 0, summary |-> <<>>,
     masked |-> <<>>]

-----------------------------------------------------------------------------
(* Storage port: storage/memory.go and storage/postgres.go                 *)

\* uuid.New(): an id no stored subscription carries
NewID ==
    CHOOSE i \in 1..(Len(subscriptions) + 1) :
        /\ \A j \in 1..Len(subscriptions) : subscriptions[j].ID # i
        /\ \A k \in 1..(i - 1) : \E j \in 1..Len(subscriptions) : subscriptions[j].ID = k

SubRowsOf(subs, t) == { i \in 1..Len(subs) : subs[i].TenantID = t }

\* InMemoryStorage.GetSubscription: the map entry of the tenant.
\* PostgresStorage.GetSubscription: ORDER BY created_at DESC LIMIT 1; requests
\* are served at strictly increasing instants, so of two rows stamped with the
\* same model hour the later inserted one is the more recent.
GetSubscriptionIn(subs, t) ==
    LET idx == SubRowsOf(subs, t)
    IN  IF idx = {} THEN NoSub
        ELSE subs[CHOOSE i \in idx : \A j \in idx :
                      \/ subs[j].CreatedAt < subs[i].CreatedAt
                      \/ (subs[j].CreatedAt = subs[i].CreatedAt /\ j <= i)]

\* Variant: the read finds no subscription
GetSubscriptionMissing(t) == NoSub

GetSubscription(t) == GetSubscriptionIn(subscriptions, t)

\* The earliest of the trial ends stored for the tenant so far: the earliest
\* of the one recorded and of those of the tenant's stored subscriptions
EarliestTrialEnd(recorded, subs, t) ==
    LET ends == { subs[i].TrialEndDate : i \in SubRowsOf(subs, t) }
                    \cup {recorded}
        set == ends \ {NoTime}
    IN  IF set = {} THEN NoTime
        ELSE CHOOSE e \in set : \A x \in set : e <= x

TrialEndsAfter(subs) ==
    [t \in Tenants |-> EarliestTrialEnd(trialEnds[t], subs, t)]

\* Variant: the error of the read is not looked at
SubscriptionReadIgnored(fault) == FALSE

\* PostgresStorage.GetSubscription returns an error; the in-memory one never does
SubscriptionReadFails(fault) == backend = "postgres" /\ fault = "GetSubscription"

\* CreateTenant: in memory a map store; in postgres an INSERT that can fail
CreateTenantOK(fault) == backend = "memory" \/ fault # "CreateTenant"

CreateTenant(tns, t, fault) ==
    IF CreateTenantOK(fault) THEN tns \cup {t} ELSE tns

\* CreateSubscription: in memory s.subscriptions[sub.TenantID] = sub; in
\* postgres an INSERT under tenant_id REFERENCES tenants(id)
CreateSubscriptionOK(tns, sub, fault) ==
    backend = "memory" \/ (fault # "CreateSubscription" /\ sub.TenantID \in tns)

\* Variant: the row is stored although the insert reports an error
CreateSubscriptionInDespiteError(subs, tns, sub, fault) ==
    IF backend = "memory" /\ SubRowsOf(subs, sub.TenantID) # {}
    THEN [i \in 1..Len(subs) |->
             IF subs[i].TenantID = sub.TenantID THEN sub ELSE subs[i]]
    ELSE Append(subs, sub)

CreateSubscriptionIn(subs, tns, sub, fault) ==
    IF ~CreateSubscriptionOK(tns, sub, fault) THEN subs
    ELSE IF backend = "memory" /\ SubRowsOf(subs, sub.TenantID) # {}
         THEN [i \in 1..Len(subs) |->
                  IF subs[i].TenantID = sub.TenantID THEN sub ELSE subs[i]]
         ELSE Append(subs, sub)

\* Variant: the error of the update is not looked at
UpdateSubscriptionOKIgnored(fault) == TRUE

UpdateSubscriptionOK(fault) == backend = "memory" \/ fault # "UpdateSubscription"

\* The relational UPDATE writes plan, status, cameras_licensed, trial_end_date
\* and subscription_end_date of the row with the subscription's id
PostgresUpdateRow(row, sub) ==
    [row EXCEPT !.Plan = sub.Plan, !.Status = sub.Status,
                !.CamerasLicensed = sub.CamerasLicensed,
                !.TrialEndDate = sub.TrialEndDate,
                !.SubscriptionEndDate = sub.SubscriptionEndDate]

UpdateSubscriptionIn(subs, sub, fault) ==
    IF ~UpdateSubscriptionOK(fault) THEN subs
    ELSE IF backend = "memory"
         THEN [i \in 1..Len(subs) |->
                  IF subs[i].TenantID = sub.TenantID THEN sub ELSE subs[i]]
         ELSE [i \in 1..Len(subs) |->
                  IF subs[i].ID = sub.ID THEN PostgresUpdateRow(subs[i], sub)
                  ELSE subs[i]]

\* Variant: a failed read still yields the enabled assignments
GetEnabledGrowthPacksStale(gp, t, fault) ==
    SelectSeq(gp[t], LAMBDA p : p.IsEnabled)

\* Variant: the assignments are returned whether enabled or not
GetAllGrowthPacks(gp, t, fault) ==
    IF backend = "postgres" /\ fault = "GetEnabledGrowthPacks" THEN <<>>
    ELSE gp[t]

\* GetEnabledGrowthPacks: the enabled assignments of the tenant, in stored order
GetEnabledGrowthPacks(gp, t, fault) ==
    IF backend = "postgres" /\ fault = "GetEnabledGrowthPacks" THEN <<>>
    ELSE SelectSeq(gp[t], LAMBDA p : p.IsEnabled)

PackNamesOf(packs) == [i \in 1..Len(packs) |-> packs[i].PackName]

HasPack(packs, name) == \E i \in 1..Len(packs) : packs[i].PackName = name

\* Variant: an assignment is appended whether or not the name is present
EnableGrowthPackAppend(gp, tns, t, name) ==
    IF backend = "postgres" /\ t \notin tns THEN gp
    ELSE [gp EXCEPT ![t] = Append(gp[t], [PackName |-> name, IsEnabled |-> TRUE])]

\* EnableGrowthPack: re-enable the assignment of that name, else append one
\* (postgres: INSERT .. ON CONFLICT (tenant_id, pack_name) DO UPDATE)
EnableGrowthPack(gp, tns, t, name) ==
    IF backend = "postgres" /\ t \notin tns THEN gp
    ELSE IF HasPack(gp[t], name)
         THEN [gp EXCEPT ![t] = [i \in 1..Len(gp[t]) |->
                  IF gp[t][i].PackName = name
                  THEN [gp[t][i] EXCEPT !.IsEnabled = TRUE] ELSE gp[t][i]]]
         ELSE [gp EXCEPT ![t] = Append(gp[t], [PackName |-> name, IsEnabled |-> TRUE])]

DisableGrowthPack(gp, t, name, fault) ==
    IF backend = "postgres" /\ fault = "DisableGrowthPack" THEN gp
    ELSE [gp EXCEPT ![t] = [i \in 1..Len(gp[t]) |->
             IF gp[t][i].PackName = name
             THEN [gp[t][i] EXCEPT !.IsEnabled = FALSE] ELSE gp[t][i]]]

cameraKey(cameraID, tenantID) == tenantID \o <<":">> \o cameraID

GetCameraLicense(cameraID, tenantID) ==
    { cam \in cameras : cam.Key = cameraKey(cameraID, tenantID) }

\* InMemoryStorage.GetCamerasByTenant keeps the entries whose key starts with
\* the tenant id; PostgresStorage selects WHERE tenant_id = $1
GetCamerasByTenant(t) ==
    IF backend = "memory"
    THEN { cam \in cameras :
             Len(cam.Key) > Len(t) /\ SubSeq(cam.Key, 1, Len(t)) = t }
    ELSE { cam \in cameras : cam.TenantID = t }

CountCamerasByTenant(t) == Cardinality(GetCamerasByTenant(t))

SaveCameraLicenseOK(tns, license, fault) ==
    backend = "memory" \/ (fault # "SaveCameraLicense" /\ license.TenantID \in tns)

\* SaveCameraLicense: in memory a map store under the camera key; in postgres
\* an upsert ON CONFLICT (camera_id, tenant_id)
SaveCameraLicense(cams, tns, license, fault) ==
    IF ~SaveCameraLicenseOK(tns, license, fault) THEN cams
    ELSE IF backend = "memory"
    THEN { cam \in cams : cam.Key # license.Key } \cup {license}
    ELSE { cam \in cams : ~(cam.CameraID = license.CameraID
                            /\ cam.TenantID = license.TenantID) } \cup {license}

FaultsOf(ops) == IF backend = "postgres" THEN {"none"} \cup ops ELSE {"none"}

-----------------------------------------------------------------------------
(* Handler.ValidateLicense (handlers/billing.go:72-217)                    *)

\* The trial subscription that ValidateLicense creates for a new tenant
ValidateTrialSub(t) ==
    [ID |-> NewID, TenantID |-> t, Plan |-> "trial", Status |-> "active",
     CamerasLicensed |-> 2, TrialStartDate |-> now,
     TrialEndDate |-> AddDate(now, 0, 3, 0),
     SubscriptionStartDate |-> NoTime, SubscriptionEndDate |-> NoTime,
     CreatedAt |-> now]

\* Variant: the response computes its own end date from TrialDurationDays
ValidateTrialRespDays(sub, packs) ==
    [is_valid |-> TRUE, license_mode |-> "trial", packs |-> packs,
     valid_until |-> AddDate(now, 0, 0, TrialDurationDays), cameras_allowed |-> 2]

\* The response of the auto-provisioning branch
ValidateTrialResp(sub, packs) ==
    [is_valid |-> TRUE, license_mode |-> "trial", packs |-> packs,
     valid_until |-> sub.TrialEndDate, cameras_allowed |-> 2]

\* Variant: the limit is compared with > instead of >=
TrialLimitExceededStrict(sub, t, c) ==
    /\ sub.Plan = "trial"
    /\ CountCamerasByTenant(t) > sub.CamerasLicensed
    /\ c # NoCamera
    /\ GetCameraLicense(c, t) = {}

\* Trial camera limit: a camera without a license record is refused once the
\* tenant's camera count has reached cameras_licensed
TrialLimitExceeded(sub, t, c) ==
    /\ sub.Plan = "trial"
    /\ CountCamerasByTenant(t) >= sub.CamerasLicensed
    /\ c # NoCamera
    /\ GetCameraLicense(c, t) = {}

\* Variant: only a trial is checked for expiry
ExpiryOfTrialOnly(sub) ==
    IF sub.Plan = "trial" /\ sub.TrialEndDate # NoTime
    THEN [valid_until |-> sub.TrialEndDate, expired |-> After(now, sub.TrialEndDate)]
    ELSE IF sub.SubscriptionEndDate # NoTime
    THEN [valid_until |-> sub.SubscriptionEndDate, expired |-> FALSE]
    ELSE [valid_until |-> AddDate(now, 1, 0, 0), expired |-> FALSE]

\* Expiry check: the end date that applies and whether it has passed
ExpiryOf(sub) ==
    IF sub.Plan = "trial" /\ sub.TrialEndDate # NoTime
    THEN [valid_until |-> sub.TrialEndDate, expired |-> After(now, sub.TrialEndDate)]
    ELSE IF sub.SubscriptionEndDate # NoTime
    THEN [valid_until |-> sub.SubscriptionEndDate,
          expired |-> After(now, sub.SubscriptionEndDate)]
    ELSE [valid_until |-> AddDate(now, 1, 0, 0), expired |-> FALSE]

\* The response for an existing subscription
ValidateExistingResp(sub, t, c, packs) ==
    LET e == ExpiryOf(sub)
    IN  [is_valid |-> sub.Status = "active" /\ ~TrialLimitExceeded(sub, t, c)
                        /\ ~e.expired,
         license_mode |-> IF e.expired THEN "expired" ELSE sub.Plan,
         packs |-> packs, valid_until |-> e.valid_until,
         cameras_allowed |-> sub.CamerasLicensed]

\* json.Marshal of the pack names: null for the nil slice, else the array
MarshalPacks(packs) ==
    IF packs = <<>> THEN <<"null">> ELSE <<"[">> \o packs \o <<"]">>

\* Variant: the snapshot is written as valid whatever the result
CameraLicenseValid(t, c, r) ==
    [Key |-> cameraKey(c, t), CameraID |-> c, TenantID |-> t,
     LicenseMode |-> r.license_mode, IsValid |-> TRUE,
     ValidUntil |-> r.valid_until,
     EnabledGrowthPacks |-> MarshalPacks(r.packs)]

\* The camera license snapshot saved from a response
CameraLicenseOf(t, c, r) ==
    [Key |-> cameraKey(c, t), CameraID |-> c, TenantID |-> t,
     LicenseMode |-> r.license_mode, IsValid |-> r.is_valid,
     ValidUntil |-> r.valid_until,
     EnabledGrowthPacks |-> MarshalPacks(r.packs)]

ValidateLicense(t, c, fault) ==
    IF SubscriptionReadFails(fault)
    THEN /\ resp' = [NoResp EXCEPT !.op = "ValidateLicense", !.code = 500,
                                   !.fault = fault, !.tenant = t, !.camera = c]
         /\ UNCHANGED <<backend, now, ticks, store, expiredSeen, requests,
                        trialEnds>>
    ELSE
      LET sub == GetSubscription(t)
          packs == PackNamesOf(GetEnabledGrowthPacks(growthPacks, t, fault))
          isNew == sub.ID = 0
          tenants1 == IF isNew /\ t \notin tenants
                      THEN CreateTenant(tenants, t, fault) ELSE tenants
          newSub == ValidateTrialSub(t)
          subs1 == IF isNew
                   THEN CreateSubscriptionIn(subscriptions, tenants1, newSub, fault)
                   ELSE subscriptions
          r == IF isNew THEN ValidateTrialResp(newSub, packs)
               ELSE ValidateExistingResp(sub, t, c, packs)
      IN  /\ tenants' = tenants1
          /\ subscriptions' = subs1
          /\ cameras' = IF c # NoCamera
                        THEN SaveCameraLicense(cameras, tenants1,
                                               CameraLicenseOf(t, c, r), fault)
                        ELSE cameras
          /\ resp' = [NoResp EXCEPT !.op = "ValidateLicense", !.code = 200,
                                    !.fault = fault, !.tenant = t, !.camera = c,
                                    !.provisioned = isNew,
                                    !.is_valid = r.is_valid,
                                    !.license_mode = r.license_mode,
                                    !.packs = r.packs,
                                    !.valid_until = r.valid_until,
                                    !.cameras_allowed = r.cameras_allowed]
          /\ expiredSeen' = IF ~isNew /\ r.license_mode = "expired"
                            THEN expiredSeen \cup {sub} ELSE expiredSeen
          /\ UNCHANGED <<backend, now, ticks, growthPacks, entitlements, usageEvents,
                       requests>>
          /\ trialEnds' = TrialEndsAfter(subscriptions')

-----------------------------------------------------------------------------
(* Handler.GetLicenseStatus (handlers/billing.go:400-546)                  *)

\* The trial subscription that GetLicenseStatus creates for a new tenant;
\* CreatedAt is left at the zero time
StatusTrialSub(t) ==
    [ID |-> NewID, TenantID |-> t, Plan |-> "trial", Status |-> "active",
     CamerasLicensed |-> TrialMaxCameras, TrialStartDate |-> now,
     TrialEndDate |-> AddDate(now, 0, 0, TrialDurationDays),
     SubscriptionStartDate |-> NoTime, SubscriptionEndDate |-> NoTime,
     CreatedAt |-> ZeroTime]

\* Variant: every license past its trial can be revoked
StatusProjectionPastTrial(sub) ==
    LET isTrial == sub.Plan = "trial" /\ sub.TrialEndDate # NoTime
        days == IF isTrial THEN TruncDays(sub.TrialEndDate - now) ELSE 0
        mode == IF isTrial /\ days < 0 THEN "expired" ELSE sub.Plan
    IN  [has_days |-> isTrial, days_remaining |-> days, license_mode |-> mode,
         valid_until |-> IF isTrial THEN sub.TrialEndDate
                         ELSE IF sub.SubscriptionEndDate # NoTime
                              THEN sub.SubscriptionEndDate
                              ELSE AddDate(now, 1, 0, 0),
         is_valid |-> sub.Status = "active" /\ (~isTrial \/ days >= 0),
         can_revoke |-> mode # "trial"]

\* days_remaining, license_mode, is_valid and can_revoke of the status view
StatusProjection(sub) ==
    LET isTrial == sub.Plan = "trial" /\ sub.TrialEndDate # NoTime
        days == IF isTrial THEN TruncDays(sub.TrialEndDate - now) ELSE 0
        mode == IF isTrial /\ days < 0 THEN "expired" ELSE sub.Plan
    IN  [has_days |-> isTrial, days_remaining |-> days, license_mode |-> mode,
         valid_until |-> IF isTrial THEN sub.TrialEndDate
                         ELSE IF sub.SubscriptionEndDate # NoTime
                              THEN sub.SubscriptionEndDate
                              ELSE AddDate(now, 1, 0, 0),
         is_valid |-> sub.Status = "active" /\ (~isTrial \/ days >= 0),
         can_revoke |-> mode = "base"]

GetLicenseStatus(t, fault) ==
    IF SubscriptionReadFails(fault)
    THEN /\ resp' = [NoResp EXCEPT !.op = "GetLicenseStatus", !.code = 500,
                                   !.fault = fault, !.tenant = t]
         /\ UNCHANGED <<backend, now, ticks, store, expiredSeen, requests,
                        trialEnds>>
    ELSE
      LET stored == GetSubscription(t)
          cams == GetCamerasByTenant(t)
          packs == PackNamesOf(GetEnabledGrowthPacks(growthPacks, t, fault))
          isNew == stored.ID = 0
          tenants1 == IF isNew /\ t \notin tenants
                      THEN CreateTenant(tenants, t, fault) ELSE tenants
          newSub == StatusTrialSub(t)
          created == CreateSubscriptionOK(tenants1, newSub, fault)
          sub == IF isNew THEN newSub ELSE stored
          p == StatusProjection(sub)
      IN  /\ tenants' = tenants1
          /\ subscriptions' =
                IF isNew
                THEN CreateSubscriptionIn(subscriptions, tenants1, newSub, fault)
                ELSE subscriptions
          /\ resp' =
                IF isNew /\ ~created
                THEN [NoResp EXCEPT !.op = "GetLicenseStatus", !.code = 200,
                                    !.fault = fault, !.tenant = t,
                                    !.provisioned = TRUE,
                                    !.license_mode = "unlicensed"]
                ELSE [NoResp EXCEPT !.op = "GetLicenseStatus", !.code = 200,
                                    !.fault = fault, !.tenant = t,
                                    !.provisioned = isNew,
                                    !.is_valid = p.is_valid,
                                    !.license_mode = p.license_mode,
                                    !.valid_until = p.valid_until,
                                    !.has_days = p.has_days,
                                    !.days_remaining = p.days_remaining,
                                    !.cameras_allowed = sub.CamerasLicensed,
                                    !.active_cameras = Cardinality(cams),
                                    !.packs = packs,
                                    !.can_revoke = p.can_revoke]
          /\ UNCHANGED <<backend, now, ticks, growthPacks, cameras, entitlements,
                       usageEvents, expiredSeen, requests>>
          /\ trialEnds' = TrialEndsAfter(subscriptions')

-----------------------------------------------------------------------------
(* Handler.GetSubscription (handlers/billing.go:616-676) and               *)
(* Handler.ValidateCameraLicense (handlers/billing.go:935-1007)            *)

\* The subscription view: 500 after a failed read, 404 without subscription
HandlerGetSubscription(t, fault) ==
    LET sub == GetSubscription(t)
        packs == PackNamesOf(GetEnabledGrowthPacks(growthPacks, t, fault))
    IN  /\ resp' =
              IF SubscriptionReadFails(fault)
              THEN [NoResp EXCEPT !.op = "GetSubscription", !.code = 500,
                                  !.fault = fault, !.tenant = t]
              ELSE IF sub.ID = 0
              THEN [NoResp EXCEPT !.op = "GetSubscription", !.code = 404,
                                  !.fault = fault, !.tenant = t]
              ELSE [NoResp EXCEPT !.op = "GetSubscription", !.code = 200,
                                  !.fault = fault, !.tenant = t,
                                  !.plan = sub.Plan, !.status = sub.Status,
                                  !.cameras_allowed = sub.CamerasLicensed,
                                  !.packs = packs]
        /\ UNCHANGED <<backend, now, ticks, store, expiredSeen, requests,
                       trialEnds>>

\* The result of ValidateCameraLicense: the error of the subscription read is
\* dropped, so a failed read counts as no subscription
CameraValidation(sub, packs) ==
    LET isTrial == sub.Plan = "trial" /\ sub.TrialEndDate # NoTime
        validUntil == IF sub.ID # 0 /\ isTrial THEN sub.TrialEndDate
                      ELSE AddDate(now, 1, 0, 0)
        expired == sub.ID # 0 /\ isTrial /\ After(now, validUntil)
    IN  [is_valid |-> sub.ID # 0 /\ ~expired,
         license_mode |-> IF sub.ID = 0 THEN "unlicensed"
                          ELSE IF expired THEN "expired" ELSE sub.Plan,
         packs |-> packs, valid_until |-> validUntil, cameras_allowed |-> 0]

\* A camera license is saved for a valid result only
ValidateCameraLicense(t, c, fault) ==
    LET sub == IF SubscriptionReadFails(fault) THEN NoSub ELSE GetSubscription(t)
        packs == PackNamesOf(GetEnabledGrowthPacks(growthPacks, t, fault))
        r == CameraValidation(sub, packs)
    IN  /\ cameras' = IF r.is_valid /\ c # NoCamera
                      THEN SaveCameraLicense(cameras, tenants,
                                             CameraLicenseOf(t, c, r), fault)
                      ELSE cameras
        /\ resp' = [NoResp EXCEPT !.op = "ValidateCameraLicense", !.code = 200,
                                  !.fault = fault, !.tenant = t, !.camera = c,
                                  !.is_valid = r.is_valid,
                                  !.license_mode = r.license_mode,
                                  !.packs = r.packs,
                                  !.valid_until = r.valid_until]
        /\ UNCHANGED <<backend, now, ticks, tenants, subscriptions, growthPacks,
                       entitlements, usageEvents, expiredSeen, requests,
                       trialEnds>>

-----------------------------------------------------------------------------
(* Handler.RevokeLicense (handlers/billing.go:760-866)                     *)

\* Variant: any subscription can be revoked
CanRevokeAny(sub) == TRUE

\* Only a subscription that is not on the trial plan can be revoked
CanRevoke(sub) == sub.Plan # "trial"

\* Variant: the expiry test of the revoked trial is inverted
RevokedSubInverted(sub) ==
    LET fresh == sub.TrialStartDate = NoTime
        ts == IF fresh THEN now ELSE sub.TrialStartDate
        te == IF fresh THEN AddDate(now, 0, 0, TrialDurationDays)
              ELSE sub.TrialEndDate
    IN  [sub EXCEPT !.Plan = "trial",
                    !.Status = IF te # NoTime /\ After(te, now)
                               THEN "expired" ELSE "active",
                    !.CamerasLicensed = TrialMaxCameras,
                    !.TrialStartDate = ts,
                    !.TrialEndDate = te,
                    !.SubscriptionStartDate = NoTime,
                    !.SubscriptionEndDate = NoTime]

\* The subscription as the handler rewrites it before the update
RevokedSub(sub) ==
    LET fresh == sub.TrialStartDate = NoTime
        ts == IF fresh THEN now ELSE sub.TrialStartDate
        te == IF fresh THEN AddDate(now, 0, 0, TrialDurationDays)
              ELSE sub.TrialEndDate
    IN  [sub EXCEPT !.Plan = "trial",
                    !.Status = IF te # NoTime /\ After(now, te)
                               THEN "expired" ELSE "active",
                    !.CamerasLicensed = TrialMaxCameras,
                    !.TrialStartDate = ts,
                    !.TrialEndDate = te,
                    !.SubscriptionStartDate = NoTime,
                    !.SubscriptionEndDate = NoTime]

CamerasToStop(count) ==
    IF count > TrialMaxCameras THEN count - TrialMaxCameras ELSE 0

getActionMessage(camerasToStop) ==
    IF camerasToStop = 0 THEN ""
    ELSE IF camerasToStop = 1
         THEN "Please stop 1 camera to comply with trial limits."
         ELSE "Please stop " \o ToString(camerasToStop)
                  \o " cameras to comply with trial limits."

\* Variant: the loop stops after the first pack
DisableFirst(gp, t, names, fault) ==
    IF names = <<>> THEN gp ELSE DisableGrowthPack(gp, t, Head(names), fault)

RECURSIVE DisableEach(_, _, _, _)
DisableEach(gp, t, names, fault) ==
    IF names = <<>> THEN gp
    ELSE DisableEach(DisableGrowthPack(gp, t, Head(names), fault), t,
                     Tail(names), fault)

RECURSIVE EnableEach(_, _, _, _)
EnableEach(gp, tns, t, names) ==
    IF names = <<>> THEN gp
    ELSE EnableEach(EnableGrowthPack(gp, tns, t, Head(names)), tns, t, Tail(names))

RevokeDaysRemaining(sub) ==
    LET days == TruncDays(sub.TrialEndDate - now)
    IN  IF days < 0 THEN 0 ELSE days

RevokeLicense(t, fault) ==
    LET sub == GetSubscription(t)
    IN  IF SubscriptionReadFails(fault) \/ sub.ID = 0
        THEN /\ resp' = [NoResp EXCEPT !.op = "RevokeLicense", !.code = 404,
                                       !.fault = fault, !.tenant = t]
             /\ UNCHANGED <<backend, now, ticks, store, expiredSeen, requests,
                            trialEnds>>
        ELSE IF ~CanRevoke(sub)
        THEN /\ resp' = [NoResp EXCEPT !.op = "RevokeLicense", !.code = 400,
                                       !.fault = fault, !.tenant = t]
             /\ UNCHANGED <<backend, now, ticks, store, expiredSeen, requests,
                            trialEnds>>
        ELSE
          LET count == Cardinality(GetCamerasByTenant(t))
              stop == CamerasToStop(count)
              new == RevokedSub(sub)
              packs == PackNamesOf(GetEnabledGrowthPacks(growthPacks, t, fault))
          IN  IF ~UpdateSubscriptionOK(fault)
              THEN /\ resp' = [NoResp EXCEPT !.op = "RevokeLicense",
                                             !.code = 500, !.fault = fault,
                                             !.tenant = t]
                   /\ UNCHANGED <<backend, now, ticks, store, expiredSeen, requests,
                                  trialEnds>>
              ELSE /\ subscriptions' = UpdateSubscriptionIn(subscriptions, new, fault)
                   /\ growthPacks' = DisableEach(growthPacks, t, packs, fault)
                   /\ resp' = [NoResp EXCEPT
                                 !.op = "RevokeLicense", !.code = 200,
                                 !.fault = fault, !.tenant = t,
                                 !.packs = packs,
                                 !.plan = new.Plan, !.status = new.Status,
                                 !.has_days = new.TrialEndDate # NoTime,
                                 !.days_remaining =
                                     IF new.TrialEndDate # NoTime
                                     THEN RevokeDaysRemaining(new) ELSE 0,
                                 !.trial_expired = new.Status = "expired",
                                 !.cameras_allowed = TrialMaxCameras,
                                 !.current_cameras = count,
                                 !.cameras_over_limit = stop,
                                 !.action_required = stop > 0,
                                 !.action_message = getActionMessage(stop)]
                   /\ UNCHANGED <<backend, now, ticks, tenants, cameras, entitlements,
                       usageEvents, expiredSeen, requests>>
                   /\ trialEnds' = TrialEndsAfter(subscriptions')

-----------------------------------------------------------------------------
(* Admin endpoints (handlers/billing.go:1112-1259)                         *)

\* The subscription that the admin CreateSubscription builds from a request
AdminSub(t, plan, camerasLicensed) ==
    [ID |-> NewID, TenantID |-> t, Plan |-> plan, Status |-> "active",
     CamerasLicensed |->
        IF camerasLicensed = 0
        THEN (IF plan = "trial" THEN 2 ELSE DefaultPaidCameras)
        ELSE camerasLicensed,
     TrialStartDate |-> IF plan = "trial" THEN now ELSE NoTime,
     TrialEndDate |-> IF plan = "trial" THEN AddDate(now, 0, 3, 0) ELSE NoTime,
     SubscriptionStartDate |-> IF plan = "trial" THEN NoTime ELSE now,
     SubscriptionEndDate |->
        IF plan = "trial" THEN NoTime ELSE AddDate(now, 1, 0, 0),
     CreatedAt |-> now]

CreateSubscription(t, plan, camerasLicensed, fault) ==
    LET sub == AdminSub(t, plan, camerasLicensed)
        ok == CreateSubscriptionOK(tenants, sub, fault)
    IN  /\ backend = "postgres" =>
               Cardinality(SubRowsOf(subscriptions, t)) < MaxSubRows
        /\ subscriptions' = CreateSubscriptionIn(subscriptions, tenants, sub, fault)
        /\ resp' = [NoResp EXCEPT !.op = "CreateSubscription",
                                  !.code = IF ok THEN 200 ELSE 500,
                                  !.fault = fault, !.tenant = t,
                                  !.plan = IF ok THEN sub.Plan ELSE "",
                                  !.status = IF ok THEN sub.Status ELSE ""]
        /\ UNCHANGED <<backend, now, ticks, tenants, growthPacks, cameras, entitlements,
                       usageEvents, expiredSeen, requests>>
        /\ trialEnds' = TrialEndsAfter(subscriptions')

ManageGrowthPacks(t, enable, disable, fault) ==
    LET gp1 == DisableEach(growthPacks, t, disable, fault)
        gp2 == EnableEach(gp1, tenants, t, enable)
    IN  /\ growthPacks' = gp2
        /\ resp' = [NoResp EXCEPT !.op = "ManageGrowthPacks", !.code = 200,
                                  !.fault = fault, !.tenant = t,
                                  !.packs = PackNamesOf(
                                      GetEnabledGrowthPacks(gp2, t, fault))]
        /\ UNCHANGED <<backend, now, ticks, tenants, subscriptions, cameras, entitlements,
                       usageEvents, expiredSeen, requests, trialEnds>>

\* Time passes between two requests
Tick(d) ==
    /\ ticks < MaxTicks
    /\ now' = now + d
    /\ ticks' = ticks + 1
    /\ resp' = [NoResp EXCEPT !.op = "Tick"]
    /\ UNCHANGED <<backend, store, expiredSeen, requests, trialEnds>>

-----------------------------------------------------------------------------
(* Entitlements: Handler.CheckEntitlement (handlers/billing.go:220-306)    *)

\* models.BaseFeatures: category -> features of the base license
BaseFeatures ==
    ( "cv_models" :> {"person", "car", "van", "truck", "bus", "motorcycle"}
   @@ "analytics" :> {"detection", "tracking", "counting", "dwell", "heatmap",
                      "direction", "speed", "privacy_mask"}
   @@ "outputs" :> {"edge_io", "dashboard", "email", "webhook", "api"} )

\* The table of models.GetGrowthPackFeatures: pack name -> category -> features
packFeatures ==
    ( "Advanced Analytics" :>
        ("analytics" :> {"near_miss", "interaction_time", "queue_counter",
                         "object_size"})
   @@ "Active Transport" :>
        ("cv_models" :> {"bike", "scooter", "pram", "wheelchair"})
   @@ "Cloud Storage" :>
        ("outputs" :> {"cloud_backup", "extended_retention", "encrypted_storage"})
   @@ "API Integration" :>
        ("outputs" :> {"unlimited_api", "webhooks", "custom_integrations",
                       "priority_support"})
   @@ "Intelligence" :>
        ("llm" :> {"analyst_seat_full", "premium_connectors", "automated_reports"})
   @@ "Emergency Vehicles" :>
        ("cv_models" :> {"police", "ambulance", "fire_fighter"})
   @@ "Retail" :> ("cv_models" :> {"trolley", "staff", "customer"}) )

\* The features of one category that a pack provides; none for an unknown pack
GetGrowthPackFeatures(packName, category) ==
    IF packName \in DOMAIN packFeatures
       /\ category \in DOMAIN packFeatures[packName]
    THEN packFeatures[packName][category] ELSE {}

IsBaseFeature(category, feature) ==
    category \in DOMAIN BaseFeatures /\ feature \in BaseFeatures[category]

\* entitlementKey: tenantID + ":" + category + ":" + feature
entitlementKey(tenantID, category, feature) ==
    tenantID \o <<":">> \o <<category>> \o <<":">> \o <<feature>>

\* GetEntitlement: in memory the map entry of the key; in postgres the row of
\* the tenant, category and feature. A failed read leaves the handler with nil.
GetEntitlement(t, category, feature, fault) ==
    IF backend = "postgres" /\ fault = "GetEntitlement" THEN {}
    ELSE IF backend = "memory"
    THEN { e \in entitlements : e.Key = entitlementKey(t, category, feature) }
    ELSE { e \in entitlements :
             /\ e.TenantID = t /\ e.FeatureCategory = category
             /\ e.FeatureName = feature }

\* SaveEntitlement: in memory a map store under the key; in postgres an upsert
\* on (tenant_id, feature_category, feature_name) under tenant_id REFERENCES
\* tenants(id)
SaveEntitlement(ents, tns, ent) ==
    IF backend = "postgres" /\ ent.TenantID \notin tns THEN ents
    ELSE { e \in ents : e.Key # ent.Key } \cup {ent}

\* Variant: the difference is returned as it is
QuotaRemainingUnfloored(ent) ==
    IF ent.QuotaLimit > 0 THEN ent.QuotaLimit - ent.QuotaUsed ELSE -1

\* quota_remaining of a stored, enabled entitlement
QuotaRemaining(ent) ==
    IF ent.QuotaLimit > 0
    THEN (IF ent.QuotaLimit - ent.QuotaUsed < 0 THEN 0
          ELSE ent.QuotaLimit - ent.QuotaUsed)
    ELSE -1

\* Variant: the stored entitlement is consulted before the base features
EntitlementRespStoredFirst(t, category, feature, fault) ==
    LET packs == GetEnabledGrowthPacks(growthPacks, t, fault)
        ents == GetEntitlement(t, category, feature, fault)
        unlimited == [is_enabled |-> TRUE, quota_remaining |-> -1,
                      valid_until |-> AddDate(now, 1, 0, 0)]
    IN  IF \E e \in ents : e.IsEnabled
        THEN LET e == CHOOSE x \in ents : x.IsEnabled
             IN  [is_enabled |-> TRUE, quota_remaining |-> QuotaRemaining(e),
                  valid_until |-> IF e.ValidUntil # NoTime THEN e.ValidUntil
                                  ELSE AddDate(now, 1, 0, 0)]
        ELSE IF IsBaseFeature(category, feature) THEN unlimited
        ELSE IF \E i \in 1..Len(packs) :
                   feature \in GetGrowthPackFeatures(packs[i].PackName, category)
        THEN unlimited
        ELSE [is_enabled |-> FALSE, quota_remaining |-> 0, valid_until |-> now]

\* The answer of CheckEntitlement: base features, then the features of the
\* enabled growth packs, then the stored entitlement; first match wins
EntitlementResp(t, category, feature, fault) ==
    LET packs == GetEnabledGrowthPacks(growthPacks, t, fault)
        ents == GetEntitlement(t, category, feature, fault)
        unlimited == [is_enabled |-> TRUE, quota_remaining |-> -1,
                      valid_until |-> AddDate(now, 1, 0, 0)]
    IN  IF IsBaseFeature(category, feature) THEN unlimited
        ELSE IF \E i \in 1..Len(packs) :
                   feature \in GetGrowthPackFeatures(packs[i].PackName, category)
        THEN unlimited
        ELSE IF \E e \in ents : e.IsEnabled
        THEN LET e == CHOOSE x \in ents : x.IsEnabled
             IN  [is_enabled |-> TRUE, quota_remaining |-> QuotaRemaining(e),
                  valid_until |-> IF e.ValidUntil # NoTime THEN e.ValidUntil
                                  ELSE AddDate(now, 1, 0, 0)]
        ELSE [is_enabled |-> FALSE, quota_remaining |-> 0, valid_until |-> now]

CheckEntitlementResp(t, category, feature, fault) ==
    LET r == EntitlementResp(t, category, feature, fault)
    IN  [NoResp EXCEPT !.op = "CheckEntitlement", !.code = 200,
                       !.fault = fault, !.tenant = t,
                       !.feature = <<category, feature>>,
                       !.is_enabled = r.is_enabled,
                       !.quota_remaining = r.quota_remaining,
                       !.valid_until = r.valid_until]

\* Variant: a check consumes one unit of the quota of the stored entitlement
CheckEntitlementConsuming(t, category, feature, fault) ==
    /\ resp' = CheckEntitlementResp(t, category, feature, fault)
    /\ entitlements' =
          { IF e \in GetEntitlement(t, category, feature, fault)
            THEN [e EXCEPT !.QuotaUsed = e.QuotaUsed + 1] ELSE e :
            e \in entitlements }
    /\ UNCHANGED <<backend, now, ticks, tenants, subscriptions, growthPacks,
                   cameras, usageEvents, expiredSeen, requests, trialEnds>>

CheckEntitlement(t, category, feature, fault) ==
    /\ resp' = CheckEntitlementResp(t, category, feature, fault)
    /\ UNCHANGED <<backend, now, ticks, store, expiredSeen, requests,
                   trialEnds>>

\* The (category, feature) pairs of the checks: a base feature, a feature of
\* the pack "Advanced Analytics", that feature name under another category,
\* and a feature of no catalog
FeatureRequests ==
    { <<"analytics", "detection">>, <<"analytics", "near_miss">>,
      <<"cv_models", "near_miss">>, <<"llm", "custom">> }

\* The features that get a stored entitlement
StoredFeatures == { <<"analytics", "detection">>, <<"llm", "custom">> }

\* (quota_limit, quota_used): unlimited, a zero limit, an untouched quota and
\* an overdrawn one
Quotas == { <<-1, 0>>, <<0, 1>>, <<2, 0>>, <<2, 3>> }

EntitlementInputs ==
    { [Key |-> entitlementKey(<<"a">>, ft[1], ft[2]), TenantID |-> <<"a">>,
       FeatureCategory |-> ft[1], FeatureName |-> ft[2], IsEnabled |-> en,
       QuotaLimit |-> q[1], QuotaUsed |-> q[2], ValidUntil |-> NoTime] :
      ft \in StoredFeatures, en \in BOOLEAN, q \in Quotas }

\* Entitlements of limited validity: none, or the end of the ninetieth day
\* after the first request
TimedEntitlements ==
    { [Key |-> entitlementKey(<<"a">>, ft[1], ft[2]), TenantID |-> <<"a">>,
       FeatureCategory |-> ft[1], FeatureName |-> ft[2], IsEnabled |-> en,
       QuotaLimit |-> -1, QuotaUsed |-> 0, ValidUntil |-> vu] :
      ft \in StoredFeatures, en \in BOOLEAN,
      vu \in {NoTime} \cup { st + TrialDurationDays * HoursPerDay :
                                st \in StartTimes } }

\* An entitlement is written through the storage port
ProvisionEntitlement(ent) ==
    /\ entitlements' = SaveEntitlement(entitlements, tenants, ent)
    /\ resp' = [NoResp EXCEPT !.op = "SaveEntitlement", !.tenant = ent.TenantID,
                              !.feature = <<ent.FeatureCategory, ent.FeatureName>>]
    /\ UNCHANGED <<backend, now, ticks, tenants, subscriptions, growthPacks,
                   cameras, usageEvents, expiredSeen, requests, trialEnds>>

-----------------------------------------------------------------------------
\* The enable and disable lists of a request: pack names in any order, a name
\* possibly more than once
PackLists == UNION { [1..n -> PackNames] : n \in 0..MaxPackList }

\* Two requests in flight
Procs == {"p", "q"}

\* A request that has not arrived; sub is the *models.Subscription the
\* handler holds, wrote says how its last step wrote to a stored record
Idle ==
    [op |-> "", pc |-> "idle", tenant |-> <<>>, sub |-> NoSub, created |-> FALSE,
     wrote |-> ""]


Init ==
    /\ backend \in Backends
    /\ now \in StartTimes
    /\ ticks = 0
    /\ tenants = {}
    /\ subscriptions = <<>>
    /\ growthPacks = [t \in Tenants |-> <<>>]
    /\ cameras = {}
    /\ entitlements = {}
    /\ usageEvents = <<>>
    /\ resp = NoResp
    /\ expiredSeen = {}
    /\ requests = [p \in Procs |-> Idle]
    /\ trialEnds = [t \in Tenants |-> NoTime]

\* License lifecycle of one tenant over time: provisioning, upgrade to a paid
\* plan, revocation and expiry
Next ==
    \/ \E f \in FaultsOf({"CreateTenant", "CreateSubscription"}) :
            ValidateLicense(<<"a">>, NoCamera, f)
    \/ \E f \in FaultsOf({"CreateSubscription"}) :
            GetLicenseStatus(<<"a">>, f)
    \/ \E f \in FaultsOf({"UpdateSubscription"}) :
            RevokeLicense(<<"a">>, f)
    \/ \E plan \in Plans : CreateSubscription(<<"a">>, plan, 0, "none")
    \/ \E d \in TickSteps : Tick(d)

Spec == Init /\ [][Next]_vars

\* Camera registration of a tenant, beside a tenant whose id extends its id,
\* with upgrade to a paid plan and revocation; the clock stands still
NextCameras ==
    \/ \E rq \in { r \in CameraRequests : r[2] # NoCamera } :
         \E f \in FaultsOf({"SaveCameraLicense"}) :
            ValidateLicense(rq[1], rq[2], f)
    \/ \E f \in FaultsOf({"CreateSubscription"}) :
            CreateSubscription(<<"a">>, "base", 0, f)
    \/ \E f \in FaultsOf({"UpdateSubscription"}) :
            RevokeLicense(<<"a">>, f)

SpecCameras == Init /\ [][NextCameras]_vars

\* cameras_licensed of the trials that the admin endpoint creates: the default
\* and one more than the default
TrialCameraOptions == {0, TrialMaxCameras + 1}

\* Camera registration on trial subscriptions only; the clock stands still
NextTrialCameras ==
    \/ \E rq \in { r \in CameraRequests : r[2] # NoCamera } :
         \E f \in FaultsOf({"SaveCameraLicense"}) :
            ValidateLicense(rq[1], rq[2], f)
    \/ \E n \in TrialCameraOptions :
            CreateSubscription(<<"a">>, "trial", n, "none")

SpecTrialCameras == Init /\ [][NextTrialCameras]_vars

-----------------------------------------------------------------------------
(* Pricing: calculatePricing (handlers/billing.go:558-613).  Money is      *)
(* counted in cents.                                                       *)

\* handlers/billing.go:559, 14.99 AUD per camera and month
BasePerCameraRate == 1499

DefaultCurrency == "AUD"

\* A nil *float64
NoPrice == -1

\* PriceMonthly of models.AvailableGrowthPacks
CatalogPrice ==
    ( "Advanced Analytics" :> 2900 @@ "Active Transport" :> 4500
   @@ "Cloud Storage" :> 14900 @@ "API Integration" :> 10900
   @@ "Intelligence" :> 59900 @@ "Emergency Vehicles" :> 3900
   @@ "Retail" :> 4900 )

getGrowthPackPrice(packName) ==
    IF packName \in DOMAIN CatalogPrice THEN CatalogPrice[packName] ELSE 0

\* The cost of one assignment: its own price when that is set and positive,
\* else the catalog price of its name
PackCost(pack) ==
    IF pack.PriceMonthly # NoPrice /\ pack.PriceMonthly > 0
    THEN pack.PriceMonthly
    ELSE getGrowthPackPrice(pack.PackName)

RECURSIVE SumSeq(_)
SumSeq(costs) ==
    IF costs = <<>> THEN 0 ELSE Head(costs) + SumSeq(Tail(costs))

\* growthPackCosts[pack.PackName] is assigned in list order: the entry of a
\* name holds the cost of the last assignment of that name
calculatePricing(cameraCount, packs) ==
    LET names == { packs[i].PackName : i \in 1..Len(packs) }
        last(n) == CHOOSE i \in 1..Len(packs) :
                      /\ packs[i].PackName = n
                      /\ \A j \in (i + 1)..Len(packs) : packs[j].PackName # n
        total == SumSeq([i \in 1..Len(packs) |-> PackCost(packs[i])])
        baseCost == cameraCount * BasePerCameraRate
    IN  [base_cost |-> baseCost, camera_count |-> cameraCount,
         growth_packs |-> [n \in names |-> PackCost(packs[last(n)])],
         growth_pack_cost |-> total,
         total_monthly |-> baseCost + total,
         currency |-> DefaultCurrency]

\* A call of calculatePricing; args holds its inputs
CalculatePricing(cameraCount, packs) ==
    /\ resp' = [NoResp EXCEPT !.op = "calculatePricing",
                              !.args = <<cameraCount, packs>>,
                              !.pricing = calculatePricing(cameraCount, packs)]
    /\ UNCHANGED <<backend, now, ticks, store, expiredSeen, requests,
                   trialEnds>>

\* Assignments of a catalog pack and of a pack outside the catalog, without
\* a price, with the price zero and with a price of their own
PricedPacks ==
    [PackName : {"Advanced Analytics", "Custom"},
     PriceMonthly : {NoPrice, 0, 1900}]

PricedLists == UNION { [1..n -> PricedPacks] : n \in 0..MaxPackList }

NextPricing ==
    \E n \in 0..NumCameras, packs \in PricedLists : CalculatePricing(n, packs)

SpecPricing == Init /\ [][NextPricing]_vars

-----------------------------------------------------------------------------
(* Usage events: Handler.ReportUsageBatch (handlers/billing.go:309-362),   *)
(* Handler.GetUsageSummary (handlers/billing.go:869-932)                   *)

\* Variant: the batch is put in front of the stored events
SaveUsageEventsFront(stored, events, fault) ==
    IF backend = "postgres" /\ fault = "SaveUsageEvents" THEN stored
    ELSE events \o stored

\* SaveUsageEvents: in memory append(s.usageEvents, events...); in postgres one
\* batch of INSERTs, run in an implicit transaction, the ids a rising sequence
SaveUsageEvents(stored, events, fault) ==
    IF backend = "postgres" /\ fault = "SaveUsageEvents" THEN stored
    ELSE stored \o events

\* The events of a request as they are stored: a zero event_time becomes
\* time.Now()
StoredEvents(events) ==
    [i \in 1..Len(events) |->
        IF events[i].EventTime = ZeroTime
        THEN [events[i] EXCEPT !.EventTime = now] ELSE events[i]]

ReportUsageBatch(events, fault) ==
    LET ok == ~(backend = "postgres" /\ fault = "SaveUsageEvents")
    IN  /\ Len(usageEvents) + Len(events) <= MaxEvents
        /\ usageEvents' = SaveUsageEvents(usageEvents, StoredEvents(events), fault)
        /\ resp' = [NoResp EXCEPT !.op = "ReportUsageBatch", !.code = 200,
                                  !.fault = fault, !.args = events,
                                  !.accepted_count = IF ok THEN Len(events) ELSE 0,
                                  !.rejected_count = IF ok THEN 0 ELSE Len(events)]
        /\ UNCHANGED <<backend, now, ticks, tenants, subscriptions, growthPacks,
                       cameras, entitlements, expiredSeen, requests,
                       trialEnds>>

\* Variant: an event at the end of the period is left out
InPeriodBeforeEnd(event, tenantID, start, end) ==
    /\ event.TenantID = tenantID
    /\ event.EventTime >= start
    /\ event.EventTime < end

\* The events a summary counts: those of the tenant with
\* start <= event_time <= end
InPeriod(event, tenantID, start, end) ==
    /\ event.TenantID = tenantID
    /\ event.EventTime >= start
    /\ event.EventTime <= end

\* summary[event.EventType] += event.Quantity over the stored events, in order
RECURSIVE SummaryOf(_, _, _, _, _)
SummaryOf(events, tenantID, start, end, summary) ==
    IF events = <<>> THEN summary
    ELSE LET event == Head(events)
             ty == event.EventType
             next == IF ~InPeriod(event, tenantID, start, end) THEN summary
                     ELSE IF ty \in DOMAIN summary
                          THEN [summary EXCEPT ![ty] = @ + event.Quantity]
                          ELSE summary @@ (ty :> event.Quantity)
         IN  SummaryOf(Tail(events), tenantID, start, end, next)

\* Storage.GetUsageSummary: event_type -> summed quantity
StorageUsageSummary(tenantID, start, end) ==
    SummaryOf(usageEvents, tenantID, start, end, <<>>)

\* Handler.GetUsageSummary: a missing start is a month before now, a missing
\* end is now; args holds the period that was read
GetUsageSummary(t, periodStart, periodEnd, fault) ==
    LET start == IF periodStart = NoTime THEN AddDate(now, 0, -1, 0)
                 ELSE periodStart
        end == IF periodEnd = NoTime THEN now ELSE periodEnd
    IN  /\ resp' = IF backend = "postgres" /\ fault = "GetUsageSummary"
                   THEN [NoResp EXCEPT !.op = "GetUsageSummary", !.code = 500,
                                       !.fault = fault, !.tenant = t,
                                       !.args = <<start, end>>]
                   ELSE [NoResp EXCEPT !.op = "GetUsageSummary", !.code = 200,
                                       !.fault = fault, !.tenant = t,
                                       !.args = <<start, end>>,
                                       !.summary =
                                           StorageUsageSummary(t, start, end)]
        /\ UNCHANGED <<backend, now, ticks, store, expiredSeen, requests,
                       trialEnds>>

\* Two instants two days and one day before the first request
EarlyTime == DayNumber(2023, 11, 28) * HoursPerDay + 10

LateTime == DayNumber(2023, 11, 29) * HoursPerDay + 10

\* The events of the requests: two api calls of a tenant at the two instants,
\* an api call of the other tenant, and an event without event_time
UsageInputs ==
    { [TenantID |-> <<"a">>, EventType |-> "api_call", Quantity |-> 5,
       EventTime |-> EarlyTime],
      [TenantID |-> <<"a">>, EventType |-> "api_call", Quantity |-> 10,
       EventTime |-> LateTime],
      [TenantID |-> <<"a", "b">>, EventType |-> "api_call", Quantity |-> 10,
       EventTime |-> EarlyTime],
      [TenantID |-> <<"a">>, EventType |-> "llm_tokens", Quantity |-> 5,
       EventTime |-> ZeroTime] }

\* The batches that fit beside the stored events
Batches == UNION { [1..n -> UsageInputs] : n \in 0..(MaxEvents - Len(usageEvents)) }

\* The periods of the summaries: the early instant alone, from the early to
\* the late instant, from the late instant on, and the default period
Periods ==
    { <<EarlyTime, EarlyTime>>, <<EarlyTime, LateTime>>, <<LateTime, NoTime>>,
      <<NoTime, NoTime>> }

NextUsage ==
    \/ \E events \in Batches : \E f \in FaultsOf({"SaveUsageEvents"}) :
            ReportUsageBatch(events, f)
    \/ \E t \in Tenants, p \in Periods : \E f \in FaultsOf({"GetUsageSummary"}) :
            GetUsageSummary(t, p[1], p[2], f)

SpecUsage == Init /\ [][NextUsage]_vars

\* The readers of the subscription of one tenant beside the administrative
\* creation of a subscription, while the trial runs out
NextReaders ==
    \/ \E c \in {NoCamera, <<"1">>} : \E f \in FaultsOf({"GetSubscription"}) :
            ValidateLicense(<<"a">>, c, f)
    \/ \E f \in FaultsOf({"GetSubscription"}) : GetLicenseStatus(<<"a">>, f)
    \/ \E f \in FaultsOf({"GetSubscription"}) :
            ValidateCameraLicense(<<"a">>, <<"1">>, f)
    \/ \E f \in FaultsOf({"GetSubscription"}) :
            HandlerGetSubscription(<<"a">>, f)
    \/ CreateSubscription(<<"a">>, "base", 0, "none")
    \/ \E d \in TickSteps : Tick(d)

SpecReaders == Init /\ [][NextReaders]_vars

-----------------------------------------------------------------------------
(* Concurrent requests.  Each request is served by its own goroutine; a    *)
(* storage call is atomic (InMemoryStorage holds s.mu for its whole body,  *)
(* a PostgreSQL statement is one transaction), the handler code between    *)
(* two storage calls is not.                                               *)

\* InMemoryStorage.GetSubscription returns the stored pointer itself:
\* the handler's sub is the stored record for as long as that record is
\* stored.  PostgresStorage.GetSubscription scans the row into a new struct.
Shared(p) ==
    /\ backend = "memory"
    /\ requests[p].sub.ID # 0
    /\ \E i \in 1..Len(subscriptions) : subscriptions[i].ID = requests[p].sub.ID

Pointee(p) ==
    IF Shared(p)
    THEN subscriptions[CHOOSE i \in 1..Len(subscriptions) :
                           subscriptions[i].ID = requests[p].sub.ID]
    ELSE requests[p].sub

\* sub, err := h.storage.GetSubscription(ctx, tenantID), the first storage
\* call of ValidateLicense, GetLicenseStatus and RevokeLicense
ReadSubscription(p, op, t) ==
    /\ requests[p].pc = "idle"
    /\ requests' = [requests EXCEPT ![p] =
                       [Idle EXCEPT !.op = op, !.pc = "read", !.tenant = t,
                                    !.sub = GetSubscription(t)]]
    /\ UNCHANGED <<backend, now, ticks, store, resp, expiredSeen, trialEnds>>

\* Variant: the subscription is read again before the trial is created
NeedsTrialRechecked(p) ==
    requests[p].sub.ID = 0 /\ GetSubscription(requests[p].tenant).ID = 0

\* if sub == nil: the handler decides on the pointer it was given
NeedsTrial(p) == requests[p].sub.ID = 0

\* The rest of ValidateLicense (without camera) and of GetLicenseStatus
AnswerFirstContact(p) ==
    LET r == requests[p]
        t == r.tenant
        isNew == NeedsTrial(p)
        newSub == IF r.op = "ValidateLicense" THEN ValidateTrialSub(t)
                  ELSE StatusTrialSub(t)
        tenants1 == IF isNew /\ t \notin tenants
                    THEN CreateTenant(tenants, t, "none") ELSE tenants
        sub == IF isNew THEN newSub ELSE Pointee(p)
        packs == PackNamesOf(GetEnabledGrowthPacks(growthPacks, t, "none"))
        v == IF isNew THEN ValidateTrialResp(newSub, packs)
             ELSE ValidateExistingResp(sub, t, NoCamera, packs)
        s == StatusProjection(sub)
    IN  /\ r.pc = "read"
        /\ r.op \in {"ValidateLicense", "GetLicenseStatus"}
        /\ tenants' = tenants1
        /\ subscriptions' =
              IF isNew
              THEN CreateSubscriptionIn(subscriptions, tenants1, newSub, "none")
              ELSE subscriptions
        /\ resp' =
              IF r.op = "ValidateLicense"
              THEN [NoResp EXCEPT !.op = r.op, !.code = 200, !.tenant = t,
                                  !.provisioned = isNew,
                                  !.is_valid = v.is_valid,
                                  !.license_mode = v.license_mode,
                                  !.packs = v.packs,
                                  !.valid_until = v.valid_until,
                                  !.cameras_allowed = v.cameras_allowed]
              ELSE [NoResp EXCEPT !.op = r.op, !.code = 200, !.tenant = t,
                                  !.provisioned = isNew,
                                  !.is_valid = s.is_valid,
                                  !.license_mode = s.license_mode,
                                  !.valid_until = s.valid_until,
                                  !.has_days = s.has_days,
                                  !.days_remaining = s.days_remaining,
                                  !.cameras_allowed = sub.CamerasLicensed,
                                  !.packs = packs,
                                  !.can_revoke = s.can_revoke]
        /\ requests' = [requests EXCEPT ![p] =
                           [r EXCEPT !.pc = "done", !.sub = sub,
                                     !.created = isNew,
                                     !.wrote = IF isNew THEN "locked" ELSE ""]]
        /\ UNCHANGED <<backend, now, ticks, growthPacks, cameras, entitlements,
                       usageEvents, expiredSeen>>
        /\ trialEnds' = TrialEndsAfter(subscriptions')

\* An assignment to fields of the handler's sub: in memory it changes the
\* stored record, without the lock
WriteFields(p, pc, sub) ==
    /\ subscriptions' =
          IF Shared(p)
          THEN [i \in 1..Len(subscriptions) |->
                   IF subscriptions[i].ID = requests[p].sub.ID THEN sub
                   ELSE subscriptions[i]]
          ELSE subscriptions
    /\ requests' = [requests EXCEPT ![p] =
                       [@ EXCEPT !.pc = pc, !.sub = sub,
                                 !.wrote = IF Shared(p) THEN "unlocked" ELSE ""]]

\* RevokeLicense after the read: 404 without subscription, 400 for a trial,
\* else sub.Plan, sub.Status and sub.CamerasLicensed are assigned
RevokeRewritePlan(p) ==
    LET r == requests[p]
        sub == Pointee(p)
    IN  /\ r.pc = "read" /\ r.op = "RevokeLicense"
        /\ IF r.sub.ID = 0 \/ ~CanRevoke(sub)
           THEN /\ resp' = [NoResp EXCEPT !.op = r.op, !.tenant = r.tenant,
                               !.code = IF r.sub.ID = 0 THEN 404 ELSE 400]
                /\ requests' = [requests EXCEPT ![p] = [r EXCEPT !.pc = "done"]]
                /\ UNCHANGED subscriptions
           ELSE /\ WriteFields(p, "plan",
                       [sub EXCEPT !.Plan = "trial", !.Status = "active",
                                   !.CamerasLicensed = TrialMaxCameras])
                /\ UNCHANGED resp
        /\ UNCHANGED <<backend, now, ticks, tenants, growthPacks, cameras,
                       entitlements, usageEvents, expiredSeen>>
        /\ trialEnds' = TrialEndsAfter(subscriptions')

\* The trial dates, the expiry and the subscription dates are assigned
RevokeRewriteDates(p) ==
    /\ requests[p].pc = "plan"
    /\ WriteFields(p, "dates", RevokedSub(Pointee(p)))
    /\ UNCHANGED <<backend, now, ticks, tenants, growthPacks, cameras,
                   entitlements, usageEvents, resp, expiredSeen>>
    /\ trialEnds' = TrialEndsAfter(subscriptions')

\* h.storage.UpdateSubscription(ctx, sub), the growth packs are disabled and
\* the response is sent
RevokeUpdate(p) ==
    LET r == requests[p]
        sub == Pointee(p)
        packs == PackNamesOf(GetEnabledGrowthPacks(growthPacks, r.tenant, "none"))
    IN  /\ r.pc = "dates"
        /\ subscriptions' = UpdateSubscriptionIn(subscriptions, sub, "none")
        /\ growthPacks' = DisableEach(growthPacks, r.tenant, packs, "none")
        /\ resp' = [NoResp EXCEPT !.op = r.op, !.code = 200, !.tenant = r.tenant,
                                  !.packs = packs, !.plan = sub.Plan,
                                  !.status = sub.Status,
                                  !.trial_expired = sub.Status = "expired",
                                  !.cameras_allowed = TrialMaxCameras]
        /\ requests' = [requests EXCEPT ![p] =
                           [r EXCEPT !.pc = "done", !.wrote = "locked"]]
        /\ UNCHANGED <<backend, now, ticks, tenants, cameras, entitlements,
                       usageEvents, expiredSeen>>
        /\ trialEnds' = TrialEndsAfter(subscriptions')

NoneInFlight == \A p \in Procs : requests[p].pc = "idle"

\* Two requests of one tenant, interleaved at their storage calls, after the
\* tenant was or was not given a trial and a base subscription
NextConcurrent ==
    \/ NoneInFlight /\ ValidateLicense(<<"a">>, NoCamera, "none")
    \/ NoneInFlight /\ CreateSubscription(<<"a">>, "base", 0, "none")
    \/ \E p \in Procs :
         \E op \in {"ValidateLicense", "GetLicenseStatus", "RevokeLicense"} :
            ReadSubscription(p, op, <<"a">>)
    \/ \E p \in Procs : AnswerFirstContact(p)
    \/ \E p \in Procs : RevokeRewritePlan(p)
    \/ \E p \in Procs : RevokeRewriteDates(p)
    \/ \E p \in Procs : RevokeUpdate(p)

SpecConcurrent == Init /\ [][NextConcurrent]_vars

-----------------------------------------------------------------------------
(* maskLicenseKey.  A Go string is a sequence of bytes: len counts bytes   *)
(* and key[len(key)-4:] is its last four bytes.                            *)

\* strings.Repeat("*", n)
Repeat(b, n) == [i \in 1..n |-> b]

\* Variant: the first four bytes are kept instead of the last four
maskLicenseKeyHead(key) ==
    IF Len(key) <= 4 THEN key
    ELSE SubSeq(key, 1, 4) \o Repeat("*", Len(key) - 4)

maskLicenseKey(key) ==
    IF Len(key) <= 4 THEN key
    ELSE Repeat("*", Len(key) - 4) \o SubSeq(key, Len(key) - 3, Len(key))

\* A call of maskLicenseKey; args holds the key
MaskLicenseKey(key) ==
    /\ resp' = [NoResp EXCEPT !.op = "maskLicenseKey", !.args = key,
                              !.masked = maskLicenseKey(key)]
    /\ UNCHANGED <<backend, now, ticks, store, expiredSeen, requests,
                   trialEnds>>

\* Keys of letters, digits and asterisks up to one byte past the first
\* masked length
KeyBytes == {"a", "7", "*"}

Keys == UNION { [1..n -> KeyBytes] : n \in 0..MaxKeyLen }

NextMasking == \E key \in Keys : MaskLicenseKey(key)

SpecMasking == Init /\ [][NextMasking]_vars

\* The plans of models.Subscription
AllPlans == Plans \cup {"enterprise"}

\* The status view of one tenant over every plan, with revocation, while the
\* trial runs out
NextStatus ==
    \/ GetLicenseStatus(<<"a">>, "none")
    \/ \E plan \in AllPlans : CreateSubscription(<<"a">>, plan, 0, "none")
    \/ RevokeLicense(<<"a">>, "none")
    \/ \E d \in TickSteps : Tick(d)

SpecStatus == Init /\ [][NextStatus]_vars

\* The disable lists of a ManageGrowthPacks request: no pack or one pack
DisableLists == { <<>> } \cup { <<p>> : p \in PackNames }

\* Growth packs of one tenant with one camera, upgrade and revocation; the
\* clock stands still
NextPacks ==
    \/ \E f \in FaultsOf({"GetSubscription", "SaveCameraLicense",
                          "GetEnabledGrowthPacks"}) :
            ValidateLicense(<<"a">>, <<"1">>, f)
    \/ \E f \in FaultsOf({"CreateSubscription"}) :
            CreateSubscription(<<"a">>, "base", 0, f)
    \/ \E f \in FaultsOf({"GetSubscription", "GetEnabledGrowthPacks",
                          "UpdateSubscription", "DisableGrowthPack"}) :
            RevokeLicense(<<"a">>, f)
    \/ \E en \in PackLists, dis \in DisableLists :
         \E f \in FaultsOf({"DisableGrowthPack"}) :
            ManageGrowthPacks(<<"a">>, en, dis, f)

SpecPacks == Init /\ [][NextPacks]_vars

\* The enable and disable lists that concern the pack "Advanced Analytics"
AnalyticsLists == { <<>>, <<"Advanced Analytics">> }

\* Entitlement checks while the validity of the stored entitlements runs out
NextExpiry ==
    \/ ValidateLicense(<<"a">>, NoCamera, "none")
    \/ \E ent \in TimedEntitlements : ProvisionEntitlement(ent)
    \/ \E rq \in FeatureRequests : CheckEntitlement(<<"a">>, rq[1], rq[2], "none")
    \/ \E d \in TickSteps : Tick(d)

SpecExpiry == Init /\ [][NextExpiry]_vars

\* Entitlement checks of one tenant whose growth pack and stored entitlements
\* change; the clock stands still
NextEntitlements ==
    \/ ValidateLicense(<<"a">>, NoCamera, "none")
    \/ \E en \in AnalyticsLists, dis \in AnalyticsLists :
            ManageGrowthPacks(<<"a">>, en, dis, "none")
    \/ \E ent \in EntitlementInputs : ProvisionEntitlement(ent)
    \/ \E rq \in FeatureRequests :
         \E f \in FaultsOf({"GetEnabledGrowthPacks", "GetEntitlement"}) :
            CheckEntitlement(<<"a">>, rq[1], rq[2], f)

SpecEntitlements == Init /\ [][NextEntitlements]_vars

\* The camera snapshot of one camera while the growth pack of its tenant
\* changes, the storage calls of the validation fail and the trial runs out
NextSnapshots ==
    \/ \E c \in {NoCamera, <<"1">>} :
         \E f \in FaultsOf({"GetSubscription", "GetEnabledGrowthPacks",
                            "SaveCameraLicense"}) :
            ValidateLicense(<<"a">>, c, f)
    \/ \E en \in AnalyticsLists, dis \in AnalyticsLists :
            ManageGrowthPacks(<<"a">>, en, dis, "none")
    \/ \E d \in TickSteps : Tick(d)

SpecSnapshots == Init /\ [][NextSnapshots]_vars

-----------------------------------------------------------------------------
(* Properties                                                              *)

\* The last request stored what it set out to store
NoProvisioningFault == resp.fault \notin {"CreateTenant", "CreateSubscription"}

ProvisionedBy(op) ==
    /\ resp.op = op /\ resp.code = 200 /\ resp.provisioned
    /\ NoProvisioningFault

OwnCameras(t) == { cam \in cameras : cam.TenantID = t }

\* C1: for a tenant without a subscription ValidateLicense stores an active
\* trial subscription with 2 cameras and answers valid, mode trial, 2 cameras
\* allowed and valid_until equal to the stored trial_end.
C1_ValidateProvisionsTrial ==
    ProvisionedBy("ValidateLicense") =>
        LET s == GetSubscription(resp.tenant)
        IN  /\ s.ID # 0
            /\ s.Plan = "trial" /\ s.Status = "active" /\ s.CamerasLicensed = 2
            /\ resp.is_valid /\ resp.license_mode = "trial"
            /\ resp.cameras_allowed = 2
            /\ resp.valid_until = s.TrialEndDate

C1_Witness ==
    /\ ProvisionedBy("ValidateLicense")
    /\ GetSubscription(resp.tenant).Plan = "trial"
    /\ resp.valid_until # now + TrialDurationDays * HoursPerDay

\* C2: the trial that ValidateLicense creates starts now and ends exactly
\* TrialDurationDays (90) days later, and valid_until is now + 90 days, on
\* every date of the call.
C2_ValidateTrialIsNinetyDays ==
    ProvisionedBy("ValidateLicense") =>
        LET s == GetSubscription(resp.tenant)
        IN  /\ s.TrialStartDate = now
            /\ s.TrialEndDate = now + TrialDurationDays * HoursPerDay
            /\ resp.valid_until = now + TrialDurationDays * HoursPerDay

\* C3: GetLicenseStatus and ValidateLicense provision the same trial: the
\* subscription either of them stored has the plan, status, cameras_licensed,
\* trial_start and trial_end that the other would have stored at that time.
C3_SameProvisioningRule ==
    (ProvisionedBy("ValidateLicense") \/ ProvisionedBy("GetLicenseStatus")) =>
        LET s == GetSubscription(resp.tenant)
            v == ValidateTrialSub(resp.tenant)
            g == StatusTrialSub(resp.tenant)
            Same(x, y) ==
                /\ x.Plan = y.Plan /\ x.Status = y.Status
                /\ x.CamerasLicensed = y.CamerasLicensed
                /\ x.TrialStartDate = y.TrialStartDate
                /\ x.TrialEndDate = y.TrialEndDate
        IN  Same(s, v) /\ Same(s, g)

\* C4: on an active, unexpired trial with cameras_licensed = 2 and exactly 2
\* registered cameras, ValidateLicense is valid for a registered camera and
\* invalid for any other camera.
C4_TrialCameraLimit ==
    [][ \A t \in Tenants, c \in CameraIds :
          LET sub == GetSubscription(t)
          IN  ( /\ resp'.op = "ValidateLicense" /\ resp'.code = 200
                /\ resp'.tenant = t /\ resp'.camera = c
                /\ sub.ID # 0 /\ sub.Plan = "trial" /\ sub.Status = "active"
                /\ sub.CamerasLicensed = 2
                /\ ~After(now, sub.TrialEndDate)
                /\ Cardinality(OwnCameras(t)) = 2 )
              => (resp'.is_valid <=> \E cam \in OwnCameras(t) : cam.CameraID = c)
      ]_vars

C4_Witness ==
    /\ resp.op = "ValidateLicense" /\ resp.code = 200 /\ ~resp.provisioned
    /\ ~resp.is_valid /\ resp.license_mode = "trial"
    /\ GetSubscription(resp.tenant).Status = "active"
    /\ GetSubscription(resp.tenant).CamerasLicensed = 2
    /\ Cardinality(OwnCameras(resp.tenant)) = 3
    /\ \E cam \in OwnCameras(resp.tenant) :
          cam.CameraID = resp.camera /\ ~cam.IsValid
    /\ \E cam \in OwnCameras(resp.tenant) : cam.IsValid

\* The end date that applies to a subscription
ApplicableEnd(sub) ==
    IF sub.Plan = "trial" THEN sub.TrialEndDate ELSE sub.SubscriptionEndDate

\* C5: ValidateLicense on a subscription whose applicable end date is before
\* now answers invalid and expired whatever its status, and a subscription
\* once reported expired is reported expired by every later call that finds
\* it unchanged.
C5_ExpiredStaysExpired ==
    (resp.op = "ValidateLicense" /\ resp.code = 200 /\ ~resp.provisioned) =>
        LET s == GetSubscription(resp.tenant)
        IN  ( \/ (ApplicableEnd(s) # NoTime /\ ApplicableEnd(s) < now)
              \/ s \in expiredSeen )
            => (~resp.is_valid /\ resp.license_mode = "expired")

C5_Witness ==
    /\ resp.op = "ValidateLicense" /\ resp.code = 200 /\ ~resp.provisioned
    /\ resp.license_mode = "expired" /\ ~resp.is_valid
    /\ GetSubscription(resp.tenant).Status = "active"
    /\ GetSubscription(resp.tenant).Plan = "base"
    /\ GetSubscription(resp.tenant) \in expiredSeen

\* C6: RevokeLicense on a trial subscription fails with HTTP 400 and changes
\* no stored subscription, growth pack assignment or camera license.
C6_RevokeTrialRejected ==
    [][ \A t \in Tenants :
          ( /\ resp'.op = "RevokeLicense" /\ resp'.tenant = t
            /\ resp'.fault # "GetSubscription"
            /\ GetSubscription(t).ID # 0
            /\ GetSubscription(t).Plan = "trial" )
          => ( /\ resp'.code = 400
               /\ subscriptions' = subscriptions
               /\ growthPacks' = growthPacks
               /\ cameras' = cameras
               /\ tenants' = tenants )
      ]_vars

C6_Witness ==
    /\ resp.op = "RevokeLicense" /\ resp.code = 400
    /\ GetSubscription(resp.tenant).Plan = "trial"
    /\ GetEnabledGrowthPacks(growthPacks, resp.tenant, "none") # <<>>
    /\ OwnCameras(resp.tenant) # {}

RevokedOK == resp.op = "RevokeLicense" /\ resp.code = 200

\* C7: after a successful RevokeLicense the stored subscription has plan
\* trial, cameras_licensed = TrialMaxCameras and neither subscription_start
\* nor subscription_end.
C7_RevokedIsTrial ==
    RevokedOK =>
        LET s == GetSubscription(resp.tenant)
        IN  /\ s.Plan = "trial"
            /\ s.CamerasLicensed = TrialMaxCameras
            /\ s.SubscriptionStartDate = NoTime
            /\ s.SubscriptionEndDate = NoTime

\* C8: a successful RevokeLicense stores trial_start = now and trial_end =
\* now + 90 days when the subscription had neither date, and otherwise leaves
\* the stored trial_start and trial_end as they were.
C8_RevokeTrialDates ==
    [][ \A t \in Tenants :
          LET old == GetSubscription(t)
              new == GetSubscriptionIn(subscriptions', t)
          IN  (resp'.op = "RevokeLicense" /\ resp'.code = 200 /\ resp'.tenant = t)
              => IF old.TrialStartDate = NoTime /\ old.TrialEndDate = NoTime
                 THEN /\ new.TrialStartDate = now
                      /\ new.TrialEndDate = now + TrialDurationDays * HoursPerDay
                 ELSE /\ new.TrialStartDate = old.TrialStartDate
                      /\ new.TrialEndDate = old.TrialEndDate
      ]_vars

C10_RevokeReportsCameras ==
    RevokedOK =>
        LET n == Cardinality(OwnCameras(resp.tenant))
            over == IF n > 2 THEN n - 2 ELSE 0
        IN  /\ resp.current_cameras = n
            /\ resp.cameras_over_limit = over
            /\ resp.action_required = (over > 0)
            /\ resp.action_message =
                 IF over = 0 THEN ""
                 ELSE IF over = 1
                 THEN "Please stop 1 camera to comply with trial limits."
                 ELSE "Please stop " \o ToString(over)
                          \o " cameras to comply with trial limits."

\* The enabled growth packs a read of the store returns for the tenant
EnabledNow(t) == PackNamesOf(GetEnabledGrowthPacks(growthPacks, t, "none"))

C12_FailedUpdateKeepsPacks ==
    [][ \A t \in Tenants :
          ( /\ resp'.op = "RevokeLicense" /\ resp'.tenant = t
            /\ resp'.fault = "UpdateSubscription"
            /\ GetSubscription(t).ID # 0
            /\ GetSubscription(t).Plan # "trial" )
          => (resp'.code = 500 /\ growthPacks' = growthPacks)
      ]_vars

C12_Witness ==
    /\ resp.op = "RevokeLicense" /\ resp.code = 500
    /\ resp.fault = "UpdateSubscription"
    /\ GetSubscription(resp.tenant).Plan = "base"
    /\ EnabledNow(resp.tenant) # <<>>

\* The stored entitlements of a tenant for a (category, feature)
StoredFor(t, ft) ==
    { e \in entitlements :
        e.TenantID = t /\ e.FeatureCategory = ft[1] /\ e.FeatureName = ft[2] }

\* Some enabled growth pack assignment of the tenant provides the feature
PackProvides(t, ft) ==
    \E i \in 1..Len(growthPacks[t]) :
        /\ growthPacks[t][i].IsEnabled
        /\ ft[2] \in GetGrowthPackFeatures(growthPacks[t][i].PackName, ft[1])

Checked == resp.op = "CheckEntitlement" /\ resp.code = 200

\* C13: CheckEntitlement for a base feature answers is_enabled = true and
\* quota_remaining = -1, whatever the growth packs and the stored entitlement
\* are, and whether or not the storage reads would succeed.
C13_BaseFeatureUnlimited ==
    (Checked /\ IsBaseFeature(resp.feature[1], resp.feature[2]))
        => (resp.is_enabled /\ resp.quota_remaining = -1)

C13_Witness ==
    /\ Checked /\ IsBaseFeature(resp.feature[1], resp.feature[2])
    /\ resp.quota_remaining = -1
    /\ \E e \in StoredFor(resp.tenant, resp.feature) :
          e.IsEnabled /\ e.QuotaLimit > 0 /\ e.QuotaUsed > e.QuotaLimit
    /\ EnabledNow(resp.tenant) # <<>>

\* C14: when its storage reads succeed, CheckEntitlement answers is_enabled =
\* true exactly when the feature is a base feature, or a feature of an enabled
\* growth pack of the tenant, or has a stored enabled entitlement; otherwise
\* it answers is_enabled = false with quota_remaining = 0.
C14_EnabledExactlyWhen ==
    (Checked /\ resp.fault = "none") =>
        LET on == \/ IsBaseFeature(resp.feature[1], resp.feature[2])
                  \/ PackProvides(resp.tenant, resp.feature)
                  \/ \E e \in StoredFor(resp.tenant, resp.feature) : e.IsEnabled
        IN  /\ resp.is_enabled = on
            /\ ~on => resp.quota_remaining = 0

C14_Witness ==
    /\ Checked /\ resp.fault = "none" /\ ~resp.is_enabled
    /\ resp.feature = <<"analytics", "near_miss">>
    /\ \E i \in 1..Len(growthPacks[resp.tenant]) :
          /\ growthPacks[resp.tenant][i].PackName = "Advanced Analytics"
          /\ ~growthPacks[resp.tenant][i].IsEnabled

\* The check was answered from the stored entitlement
ViaStored ==
    /\ Checked /\ resp.fault = "none"
    /\ ~IsBaseFeature(resp.feature[1], resp.feature[2])
    /\ ~PackProvides(resp.tenant, resp.feature)
    /\ \E e \in StoredFor(resp.tenant, resp.feature) : e.IsEnabled

\* C15: a check answered from a stored, enabled entitlement has
\* quota_remaining = max(0, quota_limit - quota_used) when quota_limit > 0 and
\* -1 when quota_limit <= 0; no check answers a quota_remaining below -1.
C15_QuotaRemaining ==
    /\ ViaStored =>
          \A e \in StoredFor(resp.tenant, resp.feature) :
              resp.quota_remaining =
                  IF e.QuotaLimit > 0
                  THEN (IF e.QuotaLimit > e.QuotaUsed
                        THEN e.QuotaLimit - e.QuotaUsed ELSE 0)
                  ELSE -1
    /\ Checked => resp.quota_remaining >= -1

C15_Witness ==
    /\ ViaStored /\ resp.quota_remaining = 0
    /\ \E e \in StoredFor(resp.tenant, resp.feature) :
          e.QuotaLimit > 0 /\ e.QuotaUsed > e.QuotaLimit

\* C16: CheckEntitlement changes no stored tenant, subscription, growth pack
\* assignment, camera license or feature entitlement, whatever it answers.
C16_CheckMutatesNothing ==
    [][ resp'.op = "CheckEntitlement" =>
          /\ tenants' = tenants /\ subscriptions' = subscriptions
          /\ growthPacks' = growthPacks /\ cameras' = cameras
          /\ entitlements' = entitlements
      ]_vars

C16_Witness ==
    /\ ViaStored /\ resp.quota_remaining = 2
    /\ \E e \in StoredFor(resp.tenant, resp.feature) :
          e.QuotaLimit = 2 /\ e.QuotaUsed = 0


\* C17: a ValidateLicense call whose GetSubscription read fails answers 500,
\* carries no license result, and creates or updates no tenant, subscription
\* or camera license
C17_FailedReadValidatesNothing ==
    [][(resp'.op = "ValidateLicense" /\ backend = "postgres"
         /\ resp'.fault = "GetSubscription")
        => /\ resp'.code = 500
           /\ ~resp'.is_valid
           /\ resp'.license_mode = ""
           /\ store' = store]_vars

\* A validation of camera 1 was answered 500 after a failed read while the
\* tenant has a subscription and no camera license
C17_Witness ==
    /\ resp.op = "ValidateLicense" /\ resp.fault = "GetSubscription"
    /\ resp.code = 500 /\ resp.camera = <<"1">>
    /\ GetSubscription(resp.tenant).ID # 0
    /\ cameras = {}

\* The license result of ValidateLicense for a subscription read without error
LicenseResult(t, c, packs) ==
    LET sub == GetSubscription(t)
    IN  IF sub.ID = 0 THEN ValidateTrialResp(ValidateTrialSub(t), packs)
        ELSE ValidateExistingResp(sub, t, c, packs)

\* C18: a ValidateLicense call whose growth pack read or camera snapshot
\* write fails still answers 200 with the license result of its subscription;
\* after a failed growth pack read the pack list of the response is empty,
\* after a failed snapshot write it is the list of the enabled packs
C18_AuxiliaryFailureTolerated ==
    [][(resp'.op = "ValidateLicense" /\ backend = "postgres"
         /\ resp'.fault \in {"GetEnabledGrowthPacks", "SaveCameraLicense"})
        => LET r == LicenseResult(resp'.tenant, resp'.camera, resp'.packs)
           IN  /\ resp'.code = 200
               /\ resp'.is_valid = r.is_valid
               /\ resp'.license_mode = r.license_mode
               /\ resp'.valid_until = r.valid_until
               /\ resp'.cameras_allowed = r.cameras_allowed
               /\ resp'.packs = IF resp'.fault = "GetEnabledGrowthPacks"
                                THEN <<>>
                                ELSE EnabledNow(resp'.tenant)]_vars

\* A validation whose growth pack read failed was answered as valid with an
\* empty pack list while the tenant has an enabled pack
C18_Witness ==
    /\ resp.op = "ValidateLicense" /\ resp.fault = "GetEnabledGrowthPacks"
    /\ resp.code = 200 /\ resp.is_valid /\ resp.packs = <<>>
    /\ EnabledNow(resp.tenant) # <<>>

\* The camera licenses stored for a camera of a tenant
LicensesOf(cams, t, c) == { cam \in cams : cam.TenantID = t /\ cam.CameraID = c }

\* C19: after a ValidateLicense call that was answered, named a camera and
\* whose snapshot write succeeded, exactly one camera license is stored for
\* the (tenant, camera), with the is_valid, license_mode, valid_until and
\* enabled packs of the response; a call without a camera leaves the camera
\* licenses as they were
C19_SnapshotMatchesResponse ==
    [][(resp'.op = "ValidateLicense" /\ resp'.code = 200)
        => IF resp'.camera = NoCamera THEN cameras' = cameras
           ELSE (backend = "postgres" /\ resp'.fault = "SaveCameraLicense")
                \/ /\ Cardinality(LicensesOf(cameras', resp'.tenant,
                                             resp'.camera)) = 1
                   /\ \A cam \in LicensesOf(cameras', resp'.tenant, resp'.camera) :
                        /\ cam.IsValid = resp'.is_valid
                        /\ cam.LicenseMode = resp'.license_mode
                        /\ cam.ValidUntil = resp'.valid_until
                        /\ cam.EnabledGrowthPacks = MarshalPacks(resp'.packs)]_vars

\* A validation of camera 1 was answered as expired with an enabled pack, and
\* the one stored license of the camera is invalid and holds that pack
C19_Witness ==
    /\ resp.op = "ValidateLicense" /\ resp.code = 200 /\ resp.fault = "none"
    /\ resp.camera = <<"1">> /\ ~resp.is_valid /\ resp.packs # <<>>
    /\ \E cam \in cameras :
         /\ cameras = {cam}
         /\ ~cam.IsValid
         /\ cam.EnabledGrowthPacks = <<"[", "Advanced Analytics", "]">>


\* The names of a pack list, each taken once
NameSet(names) == { names[i] : i \in 1..Len(names) }

\* C20: a tenant never has two assignments of one pack name, and the pack
\* list of an answered ValidateLicense whose growth pack read succeeded names
\* exactly the enabled assignments of the tenant, each once
C20_OneAssignmentPerPack ==
    /\ \A t \in DOMAIN growthPacks :
         \A i, j \in 1..Len(growthPacks[t]) :
            growthPacks[t][i].PackName = growthPacks[t][j].PackName => i = j
    /\ (resp.op = "ValidateLicense" /\ resp.code = 200
          /\ ~(backend = "postgres" /\ resp.fault = "GetEnabledGrowthPacks"))
        => /\ NameSet(resp.packs)
                = { growthPacks[resp.tenant][i].PackName :
                      i \in { k \in 1..Len(growthPacks[resp.tenant]) :
                                growthPacks[resp.tenant][k].IsEnabled } }
           /\ Cardinality(NameSet(resp.packs)) = Len(resp.packs)

\* A validation was answered with one pack while the tenant has two
\* assignments, the other one disabled
C20_Witness ==
    /\ resp.op = "ValidateLicense" /\ resp.code = 200 /\ resp.fault = "none"
    /\ Len(resp.packs) = 1
    /\ Len(growthPacks[resp.tenant]) = 2


\* C21: every stored subscription has the date pair of its plan: a trial has
\* trial_start and trial_end set and subscription_start and subscription_end
\* unset; any other plan has subscription_start and subscription_end set
C21_DatePairOfPlan ==
    \A i \in 1..Len(subscriptions) :
        LET sub == subscriptions[i]
        IN  IF sub.Plan = "trial"
            THEN /\ sub.TrialStartDate # NoTime /\ sub.TrialEndDate # NoTime
                 /\ sub.SubscriptionStartDate = NoTime
                 /\ sub.SubscriptionEndDate = NoTime
            ELSE /\ sub.SubscriptionStartDate # NoTime
                 /\ sub.SubscriptionEndDate # NoTime


\* C22: when the subscription insert fails while GetLicenseStatus provisions
\* the trial of a tenant without subscription, the call answers 200 with
\* license_mode "unlicensed", is_valid false, cameras_allowed 0 and no
\* growth pack, and stores no subscription
C22_FailedProvisioningDegrades ==
    [][(/\ resp'.op = "GetLicenseStatus"
        /\ ~SubscriptionReadFails(resp'.fault)
        /\ GetSubscription(resp'.tenant).ID = 0
        /\ ~CreateSubscriptionOK(tenants', StatusTrialSub(resp'.tenant),
                                 resp'.fault))
        => /\ resp'.code = 200
           /\ resp'.license_mode = "unlicensed"
           /\ ~resp'.is_valid
           /\ resp'.cameras_allowed = 0
           /\ resp'.packs = <<>>
           /\ subscriptions' = subscriptions]_vars

\* A status request was answered "unlicensed" after a failed insert and the
\* tenant has no subscription
C22_Witness ==
    /\ resp.op = "GetLicenseStatus" /\ resp.fault = "CreateSubscription"
    /\ resp.code = 200 /\ resp.license_mode = "unlicensed"
    /\ GetSubscription(resp.tenant).ID = 0


\* C23: a GetLicenseStatus response carries days_remaining exactly for a
\* subscription on the trial plan, and its value is the floor of the hours
\* until trial_end over 24; when that floor is negative the license is
\* reported expired
C23_DaysRemainingIsFloor ==
    (resp.op = "GetLicenseStatus" /\ resp.code = 200
       /\ resp.license_mode # "unlicensed")
    => LET sub == GetSubscription(resp.tenant)
           floor == (sub.TrialEndDate - now) \div HoursPerDay
       IN  /\ resp.has_days <=> sub.Plan = "trial"
           /\ resp.has_days =>
                /\ resp.days_remaining = floor
                /\ floor < 0 => resp.license_mode = "expired"


\* C24: in every GetLicenseStatus response with a license projection,
\* can_revoke is true exactly when the reported license_mode is "base"
C24_CanRevokeOnlyBase ==
    (resp.op = "GetLicenseStatus" /\ resp.code = 200
       /\ resp.license_mode # "unlicensed")
    => (resp.can_revoke <=> resp.license_mode = "base")

\* A status response for a trial that has run out: reported as expired and
\* not revocable
C24_Witness ==
    /\ resp.op = "GetLicenseStatus" /\ resp.code = 200
    /\ resp.license_mode = "expired" /\ ~resp.can_revoke
    /\ GetSubscription(resp.tenant).Plan = "trial"


\* C25: calculatePricing returns base_cost = cameraCount x the per-camera
\* rate, for each pack the price of the assignment whenever one is set, else
\* the catalog price of its name, else 0, growth_pack_cost = the sum of these
\* costs, total_monthly = base_cost + growth_pack_cost and the currency AUD
C25_PricingBreakdown ==
    resp.op = "calculatePricing"
    => LET n == resp.args[1]
           packs == resp.args[2]
           p == resp.pricing
           cost(pack) == IF pack.PriceMonthly # NoPrice THEN pack.PriceMonthly
                         ELSE IF pack.PackName \in DOMAIN CatalogPrice
                              THEN CatalogPrice[pack.PackName] ELSE 0
           once(i) == \A j \in 1..Len(packs) :
                         packs[j].PackName = packs[i].PackName => j = i
       IN  /\ p.base_cost = n * BasePerCameraRate
           /\ \A i \in 1..Len(packs) :
                once(i) => p.growth_packs[packs[i].PackName] = cost(packs[i])
           /\ p.growth_pack_cost = SumSeq([i \in 1..Len(packs) |-> cost(packs[i])])
           /\ p.total_monthly = p.base_cost + p.growth_pack_cost
           /\ p.currency = "AUD"


\* C26: the summary of a tenant and a period holds, for each event type, the
\* sum of the quantities of exactly the stored events of that tenant with
\* start <= event_time <= end, and no entry for a type without such an event
C26_SummarySumsPeriod ==
    (resp.op = "GetUsageSummary" /\ resp.code = 200)
    => LET counted == SelectSeq(usageEvents, LAMBDA e :
                         /\ e.TenantID = resp.tenant
                         /\ resp.args[1] <= e.EventTime
                         /\ e.EventTime <= resp.args[2])
           ofType(ty) == SelectSeq(counted, LAMBDA e : e.EventType = ty)
       IN  /\ DOMAIN resp.summary
                = { counted[i].EventType : i \in 1..Len(counted) }
           /\ \A ty \in DOMAIN resp.summary :
                resp.summary[ty]
                    = SumSeq([i \in 1..Len(ofType(ty)) |-> ofType(ty)[i].Quantity])

\* Two api calls of 5 and 10 of the tenant were summed to 15 beside a stored
\* event of the other tenant
C26_Witness ==
    /\ resp.op = "GetUsageSummary" /\ resp.code = 200
    /\ resp.tenant = <<"a">>
    /\ "api_call" \in DOMAIN resp.summary
    /\ resp.summary["api_call"] = 15
    /\ \E i \in 1..Len(usageEvents) : usageEvents[i].TenantID = <<"a", "b">>

\* C27: the stored usage events only grow at their end: every step leaves the
\* events stored before it in place and in order, and a ReportUsageBatch
\* that rejects nothing appends the events of its batch in input order
C27_UsageAppendOnly ==
    [][/\ Len(usageEvents) <= Len(usageEvents')
       /\ SubSeq(usageEvents', 1, Len(usageEvents)) = usageEvents
       /\ (resp'.op = "ReportUsageBatch" /\ resp'.rejected_count = 0)
          => /\ Len(usageEvents') = Len(usageEvents) + Len(resp'.args)
             /\ \A i \in 1..Len(resp'.args) :
                  LET in == resp'.args[i]
                      out == usageEvents'[Len(usageEvents) + i]
                  IN  /\ out.TenantID = in.TenantID
                      /\ out.EventType = in.EventType
                      /\ out.Quantity = in.Quantity
                      /\ out.EventTime = IF in.EventTime = ZeroTime THEN now
                                         ELSE in.EventTime]_vars

\* A batch of two different events was appended behind a stored event
C27_Witness ==
    /\ resp.op = "ReportUsageBatch" /\ resp.rejected_count = 0
    /\ Len(resp.args) = 2 /\ resp.args[1] # resp.args[2]
    /\ Len(usageEvents) = 3
    /\ usageEvents[2].Quantity = resp.args[1].Quantity
    /\ usageEvents[3].Quantity = resp.args[2].Quantity
    /\ usageEvents[2].Quantity # usageEvents[3].Quantity


\* C28: when the tenant has a subscription, ValidateLicense, GetLicenseStatus,
\* ValidateCameraLicense and GetSubscription leave the stored subscriptions
\* as they are, and no step leaves a tenant that had a subscription without
\* one
C28_ReadersKeepSubscription ==
    [][/\ (/\ resp'.op \in {"ValidateLicense", "GetLicenseStatus",
                            "ValidateCameraLicense", "GetSubscription"}
           /\ SubRowsOf(subscriptions, resp'.tenant) # {})
          => subscriptions' = subscriptions
       /\ \A t \in Tenants :
            SubRowsOf(subscriptions, t) # {} => SubRowsOf(subscriptions', t) # {}
      ]_vars

\* A status request has reported the trial of the tenant as expired, and the
\* one stored subscription is still the active trial
C28_Witness ==
    /\ resp.op = "GetLicenseStatus" /\ resp.code = 200
    /\ resp.license_mode = "expired" /\ ~resp.provisioned
    /\ Len(subscriptions) = 1
    /\ subscriptions[1].Plan = "trial" /\ subscriptions[1].Status = "active"


\* C29: first contact is not atomic: a ValidateLicense or GetLicenseStatus
\* call that observed no subscription for the tenant attempts to create a
\* trial when it proceeds, whether or not another call has stored one since
\* its read; two concurrent first-contact calls can therefore both create
\* a trial and at-most-one creation is not guaranteed.
C29_FirstContactNotAtomic ==
    [][\A p \in Procs :
          (/\ requests[p].pc = "read"
           /\ requests[p].op \in {"ValidateLicense", "GetLicenseStatus"}
           /\ requests[p].sub.ID = 0
           /\ requests'[p].pc = "done")
          => /\ requests'[p].created
             /\ resp'.provisioned
             /\ \E i \in 1..Len(subscriptions') :
                   /\ subscriptions'[i] = requests'[p].sub
                   /\ subscriptions'[i].Plan = "trial"
             /\ backend = "postgres"
                   => Len(subscriptions') = Len(subscriptions) + 1]_vars

\* Both concurrent first-contact calls have created a trial for the tenant
C29_Witness ==
    /\ \A p \in Procs : requests[p].pc = "done" /\ requests[p].created
    /\ requests["p"].tenant = requests["q"].tenant
    /\ requests["p"].sub.ID # requests["q"].sub.ID


\* C30: on the in-memory backend no step of a request changes a field of a
\* stored subscription outside the storage mutex while another request in
\* flight holds the same record and goes on to read or write it.
C30_NoWriteOutsideLock ==
    [][backend = "memory" =>
          \A p \in Procs : \A q \in Procs \ {p} :
             (/\ requests'[p] # requests[p]
              /\ requests'[p].wrote = "unlocked"
              /\ subscriptions' # subscriptions)
             => ~(/\ requests[q].pc \in {"read", "plan", "dates"}
                  /\ requests[q].sub.ID = requests[p].sub.ID)]_vars


\* C31: maskLicenseKey returns a key of at most four bytes unchanged, and for
\* a longer key a string of the same length made of len(key) - 4 asterisks
\* followed by the last four bytes of the key.
C31_MaskKeepsLastFour ==
    resp.op = "maskLicenseKey" =>
        LET k == resp.args
            m == resp.masked
        IN  IF Len(k) <= 4 THEN m = k
            ELSE /\ Len(m) = Len(k)
                 /\ \A i \in 1..(Len(k) - 4) : m[i] = "*"
                 /\ \A i \in (Len(k) - 3)..Len(k) : m[i] = k[i]

\* A key of five bytes was masked to one asterisk and its last four bytes,
\* and a key of four bytes was returned as it is
C31_Witness ==
    /\ resp.op = "maskLicenseKey"
    /\ resp.args = <<"a", "7", "a", "7", "a">>
    /\ resp.masked = <<"*", "7", "a", "7", "a">>


\* C32: on an active, unexpired trial whose camera limit is reached, a camera
\* that was rejected for exceeding the limit is rejected again when it is
\* validated again, so that no more cameras than cameras_licensed ever
\* receive is_valid = true.
C32_RejectedStaysRejected ==
    [][ \A t \in Tenants, c \in CameraIds :
          LET sub == GetSubscription(t)
          IN  ( /\ resp'.op = "ValidateLicense" /\ resp'.code = 200
                /\ resp'.tenant = t /\ resp'.camera = c
                /\ sub.ID # 0 /\ sub.Plan = "trial" /\ sub.Status = "active"
                /\ ~After(now, sub.TrialEndDate)
                /\ CountCamerasByTenant(t) >= sub.CamerasLicensed
                /\ \E cam \in GetCameraLicense(c, t) : ~cam.IsValid )
              => ~resp'.is_valid
      ]_vars


\* C33: the trial clock of a tenant is never reset: across auto-provisioning,
\* administrative subscription creation and revocation, once a trial end has
\* been stored for a tenant no step stores a subscription of the tenant with,
\* or assigns to one, a later trial end.
C33_TrialClockNeverReset ==
    [][ \A t \in Tenants : \A i \in SubRowsOf(subscriptions', t) :
          LET new == subscriptions'[i]
              assigned == \/ i > Len(subscriptions)
                          \/ subscriptions[i].ID # new.ID
                          \/ subscriptions[i].TrialEndDate # new.TrialEndDate
          IN  (assigned /\ new.TrialEndDate # NoTime /\ trialEnds[t] # NoTime)
                  => new.TrialEndDate <= trialEnds[t]
      ]_vars


\* C34: for every stored subscription and every time, ValidateLicense called
\* without camera id and GetLicenseStatus report the same is_valid and the
\* same license_mode.
C34_SameValidityAcrossEndpoints ==
    \A t \in Tenants :
        LET sub == GetSubscription(t)
            v == ValidateExistingResp(sub, t, NoCamera, <<>>)
            s == StatusProjection(sub)
        IN  sub.ID # 0 =>
                /\ v.is_valid = s.is_valid
                /\ v.license_mode = s.license_mode


\* C35: when the tenant has a subscription, ValidateCameraLicense answers the
\* is_valid that ValidateLicense computes for the same tenant and camera in
\* the same storage state, and it records a valid camera license only then
\* (no storage call failing).
C35_CameraValidationAgrees ==
    [][ \A t \in Tenants, c \in CameraIds :
          LET sub == GetSubscription(t)
              v == ValidateExistingResp(sub, t, c, <<>>)
          IN  ( /\ resp'.op = "ValidateCameraLicense" /\ resp'.code = 200
                /\ resp'.tenant = t /\ resp'.camera = c
                /\ resp'.fault = "none"
                /\ now' = now
                /\ sub.ID # 0 )
              => /\ resp'.is_valid = v.is_valid
                 /\ (\E cam \in cameras' \ cameras : cam.IsValid) => v.is_valid
      ]_vars


\* C36: in memory, for tenant ids of which one is a proper prefix of another,
\* GetCamerasByTenant(t) returns exactly the camera licenses saved with
\* tenant id t and CountCamerasByTenant(t) returns their number.
C36_CamerasOfTenantOnly ==
    backend = "memory" =>
        \A t \in Tenants :
            /\ GetCamerasByTenant(t) = { cam \in cameras : cam.TenantID = t }
            /\ CountCamerasByTenant(t)
                  = Cardinality({ cam \in cameras : cam.TenantID = t })


\* C37: tenant isolation: the answer of ValidateLicense for a tenant is
\* decided by the records stored for that tenant alone; the cameras of another
\* tenant never count toward its trial camera limit.
C37_TenantIsolation ==
    [][ \A t \in Tenants, c \in CameraIds :
          LET sub == GetSubscription(t)
              own == { cam \in cameras : cam.TenantID = t }
              limit == /\ sub.Plan = "trial"
                       /\ Cardinality(own) >= sub.CamerasLicensed
                       /\ ~\E cam \in own : cam.CameraID = c
          IN  ( /\ resp'.op = "ValidateLicense" /\ resp'.code = 200
                /\ resp'.tenant = t /\ resp'.camera = c
                /\ sub.ID # 0 )
              => (resp'.is_valid <=>
                     /\ sub.Status = "active"
                     /\ ~limit
                     /\ ~ExpiryOf(sub).expired)
      ]_vars


\* C38: ValidateLicense answers is_valid = true for a tenant only if a
\* subscription of that tenant is stored when the call returns, also when
\* CreateTenant or CreateSubscription fails during auto-provisioning.
C38_ValidOnlyWithSubscription ==
    (resp.op = "ValidateLicense" /\ resp.code = 200 /\ resp.is_valid)
        => GetSubscription(resp.tenant).ID # 0


\* C39: CheckEntitlement never answers is_enabled = true together with a
\* valid_until earlier than the time of the call: an entitlement whose stored
\* valid_until has passed is not reported as enabled.
C39_EnabledNotExpired ==
    [][ ( /\ resp'.op = "CheckEntitlement" /\ resp'.code = 200
          /\ now' = now
          /\ resp'.is_enabled )
        => resp'.valid_until >= now ]_vars


\* C40: on both backends GetSubscription after UpdateSubscription(sub) returns
\* a record whose plan, status, cameras_licensed, trial_start, trial_end,
\* subscription_start and subscription_end are those of sub, so that a
\* successful RevokeLicense leaves the same subscription in both.
C40_UpdateStoresAllFields ==
    [][ \A t \in Tenants :
          LET sub == RevokedSub(GetSubscription(t))
              got == GetSubscriptionIn(subscriptions', t)
          IN  ( /\ resp'.op = "RevokeLicense" /\ resp'.code = 200
                /\ resp'.tenant = t )
              => /\ got.Plan = sub.Plan
                 /\ got.Status = sub.Status
                 /\ got.CamerasLicensed = sub.CamerasLicensed
                 /\ got.TrialStartDate = sub.TrialStartDate
                 /\ got.TrialEndDate = sub.TrialEndDate
                 /\ got.SubscriptionStartDate = sub.SubscriptionStartDate
                 /\ got.SubscriptionEndDate = sub.SubscriptionEndDate
      ]_vars

====
